---------------------------- MODULE Spec2Model ----------------------------
(***************************************************************************)
(* Triage workflow engine of the alert-triage service: the LangGraph node  *)
(* graph (app/agents/graph.py), its stage nodes (app/agents/nodes), the    *)
(* guardrail gate (app/agents/guardrails.py), the queue worker and the     *)
(* approval service (app/services/triage.py).                              *)
(*                                                                         *)
(* Texts the code inspects character by character (the proposed action,    *)
(* the safety answer of the model, the confidence figure) are sequences of *)
(* one-character strings.  Confidence is kept in hundredths: 0.7 is 70.    *)
(***************************************************************************)
EXTENDS Integers, Sequences, FiniteSets, TLC

VARIABLES
    triage_queue,     \* services/triage.py: asyncio.Queue of (triage_id, alert)
    triage_results,   \* services/triage.py: dict triage_id -> TriageResult
    checkpointer,     \* agents/graph.py: MemorySaver, thread_id -> latest checkpoint
    metrics_store,    \* agents/observability.py: _metrics_store
    worker,           \* the triage_worker task: where it stands in its loop
    clients,          \* in-flight POST /triage/{id}/approve requests
    frames,           \* the running triage_graph.ainvoke call of each task
    gate_log,         \* observation: what each session's validate_action runs did
    finalize_log,     \* observation: the tasks that executed finalize, per session
    step_log,         \* observation: the latest node execution and what it returned
    variant_runs      \* experiments/runner.py: the run_variant coroutines of a run

vars == <<triage_queue, triage_results, checkpointer, metrics_store,
          worker, clients, frames, gate_log, finalize_log, step_log,
          variant_runs>>

None == "None"

-----------------------------------------------------------------------------
(* Bounds of the model *)

\* Supersteps one ainvoke call may execute before the engine aborts it with
\* GraphRecursionError (the library default is 25; graph.py passes none).
RecursionLimit == 9

\* Tool rounds the gateway asks for in one session before it answers in text
MaxToolRounds == 2

-----------------------------------------------------------------------------
(* Text helpers *)

UpperChars == <<"A", "B", "C", "D", "E", "F", "G", "H", "I", "J", "K", "L", "M",
                "N", "O", "P", "Q", "R", "S", "T", "U", "V", "W", "X", "Y", "Z">>
LowerChars == <<"a", "b", "c", "d", "e", "f", "g", "h", "i", "j", "k", "l", "m",
                "n", "o", "p", "q", "r", "s", "t", "u", "v", "w", "x", "y", "z">>

\* str.lower() and str.upper() on one character
LowerChar(c) ==
    IF \E i \in 1..26 : UpperChars[i] = c
    THEN LowerChars[CHOOSE i \in 1..26 : UpperChars[i] = c]
    ELSE c
UpperChar(c) ==
    IF \E i \in 1..26 : LowerChars[i] = c
    THEN UpperChars[CHOOSE i \in 1..26 : LowerChars[i] = c]
    ELSE c

Lower(s) == [i \in 1..Len(s) |-> LowerChar(s[i])]
Upper(s) == [i \in 1..Len(s) |-> UpperChar(s[i])]

\* Python's  sub in s  on strings
Contains(sub, s) ==
    \E i \in 1..(Len(s) - Len(sub) + 1) : SubSeq(s, i, i + Len(sub) - 1) = sub

Digits == <<"0", "1", "2", "3", "4", "5", "6", "7", "8", "9">>
IsDigit(c) == \E d \in 1..10 : Digits[d] = c
DigitVal(c) == (CHOOSE d \in 1..10 : Digits[d] = c) - 1

RECURSIVE IntVal(_)
IntVal(s) == IF s = <<>> THEN 0
             ELSE 10 * IntVal(SubSeq(s, 1, Len(s) - 1)) + DigitVal(s[Len(s)])

\* float(text) for a text matched by [0-9.]+ : a ValueError unless it holds
\* at most one point and at least one digit.
FloatOk(s) ==
    /\ Cardinality({i \in 1..Len(s) : s[i] = "."}) <= 1
    /\ \E i \in 1..Len(s) : IsDigit(s[i])

\* The value of float(text) in hundredths (texts carry at most two decimals).
FloatHundredths(s) ==
    LET dots == {i \in 1..Len(s) : s[i] = "."}
        p    == IF dots = {} THEN Len(s) + 1 ELSE CHOOSE i \in dots : TRUE
        int  == SubSeq(s, 1, p - 1)
        frac == SubSeq(s, p + 1, Len(s))
        f2   == IF Len(frac) = 0 THEN 0
                ELSE IF Len(frac) = 1 THEN 10 * IntVal(frac)
                ELSE IntVal(SubSeq(frac, 1, 2))
    IN  100 * IntVal(int) + f2

-----------------------------------------------------------------------------
(* Guardrail gate: agents/guardrails.py *)

HIGH_RISK_ACTIONS == <<
    <<"d", "e", "l", "e", "t", "e">>,
    <<"t", "e", "r", "m", "i", "n", "a", "t", "e">>,
    <<"s", "h", "u", "t", "d", "o", "w", "n">>,
    <<"d", "r", "o", "p", "_", "d", "a", "t", "a", "b", "a", "s", "e">>,
    <<"f", "o", "r", "c", "e", "_", "r", "e", "s", "t", "a", "r", "t">>,
    <<"s", "c", "a", "l", "e", "_", "t", "o", "_", "z", "e", "r", "o">> >>

PaymentService  == <<"p", "a", "y", "m", "e", "n", "t", "-", "s", "e", "r", "v", "i", "c", "e">>
AuthService     == <<"a", "u", "t", "h", "-", "s", "e", "r", "v", "i", "c", "e">>
DatabasePrimary == <<"d", "a", "t", "a", "b", "a", "s", "e", "-", "p", "r", "i", "m", "a", "r", "y">>
KafkaBroker     == <<"k", "a", "f", "k", "a", "-", "b", "r", "o", "k", "e", "r">>

CRITICAL_SERVICES == <<PaymentService, AuthService, DatabasePrimary, KafkaBroker>>

\* The auto-approval threshold 0.7, in hundredths
ConfidenceThreshold == 70

\* Variant: the last matching keyword of the list is reported
LastRiskIndex(action) ==
    LET hits == {k \in 1..Len(HIGH_RISK_ACTIONS) :
                    Contains(HIGH_RISK_ACTIONS[k], Lower(action))}
    IN  IF hits = {} THEN 0
        ELSE CHOOSE k \in hits : \A j \in hits : k >= j

\* The first high-risk keyword, in list order, found in the lower-cased action
\* (0 when there is none): the  for risk_action in HIGH_RISK_ACTIONS  loop.
FirstRiskIndex(action) ==
    LET hits == {k \in 1..Len(HIGH_RISK_ACTIONS) :
                    Contains(HIGH_RISK_ACTIONS[k], Lower(action))}
    IN  IF hits = {} THEN 0
        ELSE CHOOSE k \in hits : \A j \in hits : k <= j

IsCriticalService(service) ==
    \E k \in 1..Len(CRITICAL_SERVICES) : CRITICAL_SERVICES[k] = service

\* Variant: the threshold itself is refused (confidence <= 0.7)
GuardrailValidateInclusive(action, service, confidence) ==
    IF FirstRiskIndex(action) # 0
    THEN [allowed |-> FALSE, requires_approval |-> TRUE,
          reason |-> [rule |-> "high_risk",
                      keyword |-> HIGH_RISK_ACTIONS[FirstRiskIndex(action)]]]
    ELSE IF IsCriticalService(service)
    THEN [allowed |-> FALSE, requires_approval |-> TRUE,
          reason |-> [rule |-> "critical_service", service |-> service]]
    ELSE IF confidence <= ConfidenceThreshold
    THEN [allowed |-> FALSE, requires_approval |-> TRUE,
          reason |-> [rule |-> "low_confidence", confidence |-> confidence]]
    ELSE [allowed |-> TRUE, requires_approval |-> FALSE,
          reason |-> [rule |-> "passed"]]

\* TriageGuardrails.validate_action(action, service, confidence)
GuardrailValidate(action, service, confidence) ==
    IF FirstRiskIndex(action) # 0
    THEN [allowed |-> FALSE, requires_approval |-> TRUE,
          reason |-> [rule |-> "high_risk",
                      keyword |-> HIGH_RISK_ACTIONS[FirstRiskIndex(action)]]]
    ELSE IF IsCriticalService(service)
    THEN [allowed |-> FALSE, requires_approval |-> TRUE,
          reason |-> [rule |-> "critical_service", service |-> service]]
    ELSE IF confidence < ConfidenceThreshold
    THEN [allowed |-> FALSE, requires_approval |-> TRUE,
          reason |-> [rule |-> "low_confidence", confidence |-> confidence]]
    ELSE [allowed |-> TRUE, requires_approval |-> FALSE,
          reason |-> [rule |-> "passed"]]

\* Character classes of the redaction patterns
Letters == {UpperChars[i] : i \in 1..26} \cup {LowerChars[i] : i \in 1..26}
IsLetter(c) == c \in Letters
IsAlnum(c)  == IsLetter(c) \/ IsDigit(c)
IsWord(c)   == IsAlnum(c) \/ c = "_"
IsEmailLocal(c)  == IsAlnum(c) \/ c \in {".", "_", "%", "+", "-"}
IsEmailDomain(c) == IsAlnum(c) \/ c \in {".", "-"}
IsEmailTld(c)    == IsLetter(c) \/ c = "|"
IsTokenChar(c)   == IsAlnum(c) \/ c \in {"_", "-"}

\* \b in front of position i (1..Len(s)+1)
WordBoundary(s, i) ==
    (i > 1 /\ IsWord(s[i - 1])) # (i <= Len(s) /\ IsWord(s[i]))

\* The character classes the patterns repeat
InClass(class, c) ==
    CASE class = "email_local"  -> IsEmailLocal(c)
      [] class = "email_domain" -> IsEmailDomain(c)
      [] class = "digit"        -> IsDigit(c)
      [] class = "alnum"        -> IsAlnum(c)
      [] class = "token"        -> IsTokenChar(c)

\* The length of the longest run of characters of a class from position i
RECURSIVE Run(_, _, _)
Run(s, i, class) ==
    IF i > Len(s) THEN 0
    ELSE IF InClass(class, s[i]) THEN 1 + Run(s, i + 1, class)
    ELSE 0

StartsWith(s, i, lit) ==
    i + Len(lit) - 1 <= Len(s) /\ SubSeq(s, i, i + Len(lit) - 1) = lit

\* Where a match of the pattern at position i ends (the position after it),
\* 0 when there is no match at i.
\*   \b[A-Za-z0-9._%+-]+@[A-Za-z0-9.-]+\.[A-Z|a-z]{2,}\b
EmailEnd(s, i) ==
    LET n    == Run(s, i, "email_local")
        d0   == i + n + 1
        m    == IF d0 <= Len(s) THEN Run(s, d0, "email_domain") ELSE 0
        cand == { ke \in ((d0 + 1)..(d0 + m - 1)) \X ((d0 + 4)..(Len(s) + 1)) :
                    /\ s[ke[1]] = "."
                    /\ ke[2] >= ke[1] + 3
                    /\ \A j \in (ke[1] + 1)..(ke[2] - 1) : IsEmailTld(s[j])
                    /\ WordBoundary(s, ke[2]) }
        best == CHOOSE ke \in cand :
                    \A o \in cand : o[1] < ke[1] \/ (o[1] = ke[1] /\ o[2] <= ke[2])
    IN IF ~IsEmailLocal(s[i]) \/ ~WordBoundary(s, i) THEN 0
       ELSE IF i + n > Len(s) THEN 0
       ELSE IF s[i + n] # "@" \/ cand = {} THEN 0
       ELSE best[2]

\*   \b\d{1,3}\.\d{1,3}\.\d{1,3}\.\d{1,3}\b
RECURSIVE OctetsEnd(_, _, _)
OctetsEnd(s, i, left) ==
    LET n == IF i <= Len(s) THEN Run(s, i, "digit") ELSE 0 IN
    IF n < 1 \/ n > 3 THEN 0
    ELSE IF left = 1 THEN (IF WordBoundary(s, i + n) THEN i + n ELSE 0)
    ELSE IF i + n <= Len(s) /\ s[i + n] = "." THEN OctetsEnd(s, i + n + 1, left - 1)
    ELSE 0

IpEnd(s, i) == IF IsDigit(s[i]) /\ WordBoundary(s, i) THEN OctetsEnd(s, i, 4) ELSE 0

\*   \b(sk-|pk-|api_)[A-Za-z0-9]{20,}\b
KeyEnd(s, i) ==
    LET p == IF StartsWith(s, i, <<"s", "k", "-">>) \/ StartsWith(s, i, <<"p", "k", "-">>)
             THEN i + 3
             ELSE IF StartsWith(s, i, <<"a", "p", "i", "_">>) THEN i + 4
             ELSE 0
        n == IF p # 0 /\ p <= Len(s) THEN Run(s, p, "alnum") ELSE 0
    IN IF p # 0 /\ WordBoundary(s, i) /\ n >= 20 /\ WordBoundary(s, p + n) THEN p + n
       ELSE 0

\*   eyJ[A-Za-z0-9_-]*\.eyJ[A-Za-z0-9_-]*\.[A-Za-z0-9_-]*
JwtEnd(s, i) ==
    LET eyJ == <<"e", "y", "J">>
        a   == IF StartsWith(s, i, eyJ) THEN i + 3 + Run(s, i + 3, "token") ELSE 0
        b   == IF a # 0 /\ StartsWith(s, a, <<".">> \o eyJ)
               THEN a + 4 + Run(s, a + 4, "token") ELSE 0
    IN IF b # 0 /\ b <= Len(s) /\ s[b] = "." THEN b + 1 + Run(s, b + 1, "token")
       ELSE 0

MatchEnd(kind, s, i) ==
    CASE kind = "[EMAIL]"     -> EmailEnd(s, i)
      [] kind = "[IP_ADDR]"   -> IpEnd(s, i)
      [] kind = "[API_KEY]"   -> KeyEnd(s, i)
      [] kind = "[JWT_TOKEN]" -> JwtEnd(s, i)

Placeholder(kind) ==
    CASE kind = "[EMAIL]"     -> <<"[", "E", "M", "A", "I", "L", "]">>
      [] kind = "[IP_ADDR]"   -> <<"[", "I", "P", "_", "A", "D", "D", "R", "]">>
      [] kind = "[API_KEY]"   -> <<"[", "A", "P", "I", "_", "K", "E", "Y", "]">>
      [] kind = "[JWT_TOKEN]" -> <<"[", "J", "W", "T", "_", "T", "O", "K", "E", "N", "]">>

\* re.sub(pattern, placeholder, text): leftmost matches, left to right
RECURSIVE Sub(_, _, _)
Sub(kind, s, i) ==
    IF i > Len(s) THEN <<>>
    ELSE LET e == MatchEnd(kind, s, i) IN
         IF e = 0 THEN << s[i] >> \o Sub(kind, s, i + 1)
         ELSE Placeholder(kind) \o Sub(kind, s, e)

\* TriageGuardrails.redact_pii(text)
redact_pii(text) ==
    Sub("[JWT_TOKEN]", Sub("[API_KEY]", Sub("[IP_ADDR]", Sub("[EMAIL]", text, 1), 1), 1), 1)

-----------------------------------------------------------------------------
(* Session state and its merge rules: agents/state.py *)

\* create_event(node, summary, **extra); the timestamp is not modelled
create_event(node, summary, extra) ==
    [node |-> node, summary |-> summary, extra |-> extra]

AIMessage(content, tool_calls) ==
    [type |-> "ai", content |-> content, tool_calls |-> tool_calls]
HumanMessage(content) ==
    [type |-> "human", content |-> content]
ToolMessage(name, status) ==
    [type |-> "tool", name |-> name, status |-> status]

\* hasattr(msg, "tool_calls") and msg.tool_calls
HasToolCalls(msg) == msg.type = "ai" /\ msg.tool_calls # <<>>

\* Variant: every key of a partial update replaces the stored value
ApplyUpdateOverwriting(state, update) ==
    [k \in DOMAIN state |->
        IF k \notin DOMAIN update THEN state[k] ELSE update[k]]

\* The reducers of AlertTriageState: messages and events accumulate, every
\* other key of a partial update replaces the stored value, absent keys stay.
ApplyUpdate(state, update) ==
    [k \in DOMAIN state |->
        IF k \notin DOMAIN update THEN state[k]
        ELSE IF k \in {"messages", "events"} THEN state[k] \o update[k]
        ELSE update[k]]

\* run_triage_workflow: the initial state of a session
InitialState(triage_id, alert) ==
    [alert |-> alert, triage_id |-> triage_id, messages |-> <<>>,
     logs_summary |-> "", metrics_summary |-> "", anomalies |-> <<>>,
     similar_incidents |-> <<>>, hypothesis |-> "",
     recommended_action |-> <<>>, confidence |-> 0,
     requires_approval |-> TRUE, events |-> <<>>]

-----------------------------------------------------------------------------
(* Model Gateway outcomes.  A call either raises or returns one message. *)

Raised == [type |-> "raise"]
NotAsked == [type |-> "not asked"]

\* A returned object that is not a message: it has no content and no
\* tool_calls attribute, so reading either raises inside the stage's try block.
Malformed == [type |-> "malformed"]

\* The stage's except branch is taken
Failed(r) == r = Raised \/ r = Malformed

\* Replies offered to gather_context (it binds the context tools)
GatherReplies ==
    { AIMessage("context", <<>>),
      AIMessage("", <<"get_alert_rules">>) }

\* Replies offered to analyze_logs (it binds search_logs, get_recent_messages,
\* query_prometheus, get_alert_rules)
LogsReplies ==
    { AIMessage("log findings", <<>>),
      AIMessage("", <<"search_logs">>),
      AIMessage("", <<"get_recent_messages">>),
      AIMessage("", <<"get_recent_messages", "search_logs">>) }

\* Replies offered to analyze_metrics (it binds get_service_metrics,
\* get_dcgm_metrics, get_dcgm_history, query_prometheus)
MetricsReplies ==
    { AIMessage("metric findings", <<>>),
      AIMessage("", <<>>),
      AIMessage("", <<"get_service_metrics">>),
      AIMessage("", <<"query_prometheus">>) }

-----------------------------------------------------------------------------
(* Stage nodes: agents/nodes.  Each maps the state and the gateway outcome *)
(* to a partial update.                                                    *)

\* Variant: the except branch records nothing
gather_context_silent(state, r) ==
    LET service == state.alert.service IN
    IF Failed(r)
    THEN [events |-> << >>]
    ELSE IF r.tool_calls # <<>>
    THEN [messages |-> << r >>,
          events |-> << create_event("gather_context", "Gathering context via tools",
                          [tool_calls |-> r.tool_calls, service |-> service]) >>]
    ELSE [messages |-> << r >>,
          events |-> << create_event("gather_context", "Gathered context",
                          [llm_reasoning |-> r.content, service |-> service]) >>]

gather_context(state, r) ==
    LET service == state.alert.service IN
    IF Failed(r)
    THEN [events |-> << create_event("gather_context", "Failed to gather context",
                          [error |-> "Context gathering failed", service |-> service]) >>]
    ELSE IF r.tool_calls # <<>>
    THEN [messages |-> << r >>,
          events |-> << create_event("gather_context", "Gathering context via tools",
                          [tool_calls |-> r.tool_calls, service |-> service]) >>]
    ELSE [messages |-> << r >>,
          events |-> << create_event("gather_context", "Gathered context",
                          [llm_reasoning |-> r.content, service |-> service]) >>]

\* Variant: the except branch returns the event only, without a summary
analyze_logs_without_fallback(state, r) ==
    IF Failed(r)
    THEN [events |-> << create_event("analyze_logs", "Failed to analyze logs",
                          [error |-> "Log analysis failed"]) >>]
    ELSE IF r.tool_calls = <<>>
    THEN [logs_summary |-> IF r.content # "" THEN r.content
                           ELSE "Log analysis completed. See trace for details.",
          messages |-> << r >>,
          events |-> << create_event("analyze_logs", "Completed log analysis",
                          [llm_reasoning |-> r.content]) >>]
    ELSE [messages |-> << r >>,
          events |-> << create_event("analyze_logs", "Searching logs via tool",
                          [tool_calls |-> r.tool_calls]) >>]

analyze_logs(state, r) ==
    IF Failed(r)
    THEN [logs_summary |-> "Error analyzing logs",
          events |-> << create_event("analyze_logs", "Failed to analyze logs",
                          [error |-> "Log analysis failed"]) >>]
    ELSE IF r.tool_calls = <<>>
    THEN [logs_summary |-> IF r.content # "" THEN r.content
                           ELSE "Log analysis completed. See trace for details.",
          messages |-> << r >>,
          events |-> << create_event("analyze_logs", "Completed log analysis",
                          [llm_reasoning |-> r.content]) >>]
    ELSE [messages |-> << r >>,
          events |-> << create_event("analyze_logs", "Searching logs via tool",
                          [tool_calls |-> r.tool_calls]) >>]

\* Variant: a tool request is passed on without an event
analyze_metrics_unrecorded_request(state, r) ==
    IF Failed(r)
    THEN [metrics_summary |-> "Error fetching metrics",
          events |-> << create_event("analyze_metrics", "Failed to analyze metrics",
                          [error |-> "Metrics analysis failed"]) >>]
    ELSE IF r.tool_calls = <<>>
    THEN [metrics_summary |-> IF r.content # "" THEN r.content
                              ELSE "Metrics analysis completed. See trace for details.",
          messages |-> << r >>,
          events |-> << create_event("analyze_metrics", "Completed metrics analysis",
                          [llm_reasoning |-> r.content]) >>]
    ELSE [messages |-> << r >>]

analyze_metrics(state, r) ==
    IF Failed(r)
    THEN [metrics_summary |-> "Error fetching metrics",
          events |-> << create_event("analyze_metrics", "Failed to analyze metrics",
                          [error |-> "Metrics analysis failed"]) >>]
    ELSE IF r.tool_calls = <<>>
    THEN [metrics_summary |-> IF r.content # "" THEN r.content
                              ELSE "Metrics analysis completed. See trace for details.",
          messages |-> << r >>,
          events |-> << create_event("analyze_metrics", "Completed metrics analysis",
                          [llm_reasoning |-> r.content]) >>]
    ELSE [messages |-> << r >>,
          events |-> << create_event("analyze_metrics", "Requesting metrics via tool",
                          [tool_calls |-> r.tool_calls]) >>]

\* The mocked incidents; r is the outcome of the analysis call, which only
\* feeds the event.
incident_rag(state, r) ==
    LET similar_incidents ==
            << [id |-> "INC-2025-1234", service |-> state.alert.service,
                type |-> state.alert.alert_type, similarity |-> 87],
               [id |-> "INC-2025-1100", service |-> state.alert.service,
                type |-> "latency_spike", similarity |-> 72] >>
    IN [similar_incidents |-> similar_incidents,
        events |-> << create_event("incident_rag", "Found similar past incidents",
                        [incidents_found |-> Len(similar_incidents),
                         top_similarity |-> 87,
                         llm_reasoning |-> IF r = Raised THEN "LLM unavailable"
                                           ELSE IF r = Malformed THEN "str(response)"
                                           ELSE r.content]) >>]

\* Variant: finalize clears the approval flag
finalize_clears_approval(state) ==
    [requires_approval |-> FALSE,
     events |-> << create_event("finalize", "Triage complete",
                     [status |-> "auto_approved", action |-> state.recommended_action,
                      confidence |-> state.confidence]) >>]

\* The event finalize appends; it returns nothing else.
finalize(state) ==
    LET status == IF state.requires_approval THEN "pending_approval"
                  ELSE "auto_approved"
    IN [events |-> << create_event("finalize", "Triage complete",
                        [status |-> status, action |-> state.recommended_action,
                         confidence |-> state.confidence]) >>]

-----------------------------------------------------------------------------
(* plan_remediation: agents/nodes/plan_remediation.py *)

TerminatePod  == <<"T", "e", "r", "m", "i", "n", "a", "t", "e", " ", "p", "o", "d", "-", "7">>
ScaleReplicas == <<"s", "c", "a", "l", "e", " ", "r", "e", "p", "l", "i", "c", "a", "s", " ", "t", "o", " ", "5">>
ManualIntervention ==
    <<"M", "a", "n", "u", "a", "l", " ", "i", "n", "t", "e", "r", "v", "e", "n", "t", "i", "o", "n",
      " ", "r", "e", "q", "u", "i", "r", "e", "d">>
RestartPrefix == <<"R", "e", "s", "t", "a", "r", "t", " ">>
RestartHost == <<"r", "e", "s", "t", "a", "r", "t", " ", "1", "0", ".", "0", ".", "0", ".", "5">>

\* What the section regexes capture from a planning reply: the hypothesis, the
\* recommended action and the confidence figure ("" or <<>> when a section is
\* missing).
PlanContent(hypothesis, action, confidence) ==
    [hypothesis |-> hypothesis, action |-> action, confidence |-> confidence]

PlanReplies ==
    { AIMessage(PlanContent("root cause", TerminatePod, <<"0", ".", "9", "5">>), <<>>),
      AIMessage(PlanContent("root cause", TerminatePod, <<"0", ".", "5">>), <<>>),
      AIMessage(PlanContent("root cause", ScaleReplicas, <<"0", ".", "9">>), <<>>),
      AIMessage(PlanContent("root cause", ScaleReplicas, <<"0", ".", "7">>), <<>>),
      AIMessage(PlanContent("root cause", RestartHost, <<"0", ".", "9">>), <<>>),
      AIMessage(PlanContent("root cause", ScaleReplicas, <<"0", ".", "6", "9">>), <<>>),
      AIMessage(PlanContent("root cause", ScaleReplicas, <<"9", "5">>), <<>>),
      AIMessage(PlanContent("root cause", ScaleReplicas, <<>>), <<>>),
      AIMessage(PlanContent("", <<>>, <<"1", ".", "2", ".", "3">>), <<>>) }

\* confidence = float(match) if match else 0.8, and 0.8 when float() fails
ParseConfidence(text) ==
    IF text # <<>> /\ FloatOk(text) THEN FloatHundredths(text) ELSE 80

Truncate(s, n) == SubSeq(s, 1, IF Len(s) < n THEN Len(s) ELSE n)

\* Variant: the fallback of a failed planning call carries confidence 0.8
plan_remediation_confident_fallback(state, r) ==
    LET failed     == Failed(r)
        hypothesis == IF failed THEN "Degraded Service"
                      ELSE IF r.content.hypothesis = "" THEN "Investigating Root Cause"
                      ELSE r.content.hypothesis
        action     == IF failed THEN RestartPrefix \o state.alert.service
                      ELSE IF r.content.action = <<>> THEN ManualIntervention
                      ELSE r.content.action
        confidence == IF failed THEN 80 ELSE ParseConfidence(r.content.confidence)
        response   == IF failed THEN HumanMessage("Planning failed") ELSE r
    IN [hypothesis |-> hypothesis,
        recommended_action |-> action,
        confidence |-> confidence,
        messages |-> << response >>,
        events |-> << create_event("plan_remediation", "Proposed",
                        [action |-> Truncate(action, 100),
                         llm_reasoning |-> IF failed THEN "Planning failed"
                                           ELSE "plan text"]) >>]

plan_remediation(state, r) ==
    LET failed     == Failed(r)
        hypothesis == IF failed THEN "Degraded Service"
                      ELSE IF r.content.hypothesis = "" THEN "Investigating Root Cause"
                      ELSE r.content.hypothesis
        action     == IF failed THEN RestartPrefix \o state.alert.service
                      ELSE IF r.content.action = <<>> THEN ManualIntervention
                      ELSE r.content.action
        confidence == IF failed THEN 50 ELSE ParseConfidence(r.content.confidence)
        response   == IF failed THEN HumanMessage("Planning failed") ELSE r
    IN [hypothesis |-> hypothesis,
        recommended_action |-> action,
        confidence |-> confidence,
        messages |-> << response >>,
        events |-> << create_event("plan_remediation", "Proposed",
                        [action |-> Truncate(action, 100),
                         llm_reasoning |-> IF failed THEN "Planning failed"
                                           ELSE "plan text"]) >>]

-----------------------------------------------------------------------------
(* validate_action: agents/nodes/validate_action.py *)

\* The prompt asks two things: "Is this action safe to execute?" and "Does
\* this require human approval? (Answer 'YES' if uncertain, 'NO' otherwise)".
\* A reply is the text of the safety assessment followed by the answer to the
\* approval question.
SafetyAssessments == { <<>>, <<"Y", "e", "s", ",", " ", "s", "a", "f", "e", ".", " ">> }
ApprovalYes == { <<"Y", "E", "S">>, <<"Y", "e", "s", ".">> }
ApprovalNo  == { <<"N", "O">> }

SafetyReply(assessment, answer) == AIMessage(assessment \o answer, <<>>)

SafetyReplies ==
    { SafetyReply(a, n) : a \in SafetyAssessments, n \in ApprovalYes \cup ApprovalNo }

\* Variant: the answer is searched without upper-casing it
LlmRequiresApprovalCaseSensitive(content) == Contains(<<"Y", "E", "S">>, content)

\* llm_requires_approval = "YES" in llm_reasoning.upper()
LlmRequiresApproval(content) == Contains(<<"Y", "E", "S">>, Upper(content))

\* Variant: the severity override is missing
FinalDecisionModelOnly(llm_requires_approval, severity) == llm_requires_approval

\* requires_approval = llm_requires_approval or severity in ["critical", "high"]
FinalDecision(llm_requires_approval, severity) ==
    llm_requires_approval \/ severity \in {"critical", "high"}

\* What the node read from the state, and layer 1 on it
GateInputs(state) ==
    [action |-> state.recommended_action, service |-> state.alert.service,
     severity |-> state.alert.severity, confidence |-> state.confidence]

Layer1(state) ==
    GuardrailValidate(state.recommended_action, state.alert.service, state.confidence)

\* Variant: a failed model call leaves the action auto-approved (fail-open)
validate_action_fail_open(state, r) ==
    LET guardrail_result == Layer1(state)
        severity         == state.alert.severity
    IN IF ~guardrail_result.allowed
       THEN [llm_invoked |-> FALSE,
             update |->
               [requires_approval |-> TRUE,
                events |-> << create_event("validate_action", "Guardrails triggered",
                                [guardrail_blocked |-> TRUE,
                                 guardrail_reason |-> guardrail_result.reason,
                                 sanitized_action |-> redact_pii(state.recommended_action)]) >>]]
       ELSE IF Failed(r)
       THEN [llm_invoked |-> TRUE,
             update |->
               [requires_approval |-> FALSE,
                messages |-> << HumanMessage("Validation failed") >>,
                events |-> << create_event("validate_action", "Validation complete",
                                [requires_approval |-> FALSE,
                                 llm_reasoning |-> "Validation failed",
                                 guardrail_passed |-> TRUE,
                                 sanitized_action |-> state.recommended_action]) >>]]
       ELSE LET requires_approval ==
                    FinalDecision(LlmRequiresApproval(r.content), severity)
            IN [llm_invoked |-> TRUE,
                update |->
                  [requires_approval |-> requires_approval,
                   messages |-> << r >>,
                   events |-> << create_event("validate_action", "Validation complete",
                                   [requires_approval |-> requires_approval,
                                    llm_reasoning |-> r.content,
                                    guardrail_passed |-> TRUE,
                                    sanitized_action |-> redact_pii(state.recommended_action)]) >>]]

\* Variant: the model is invoked before the result of layer 1 is looked at
validate_action_model_first(state, r) ==
    LET guardrail_result == Layer1(state)
        severity         == state.alert.severity
    IN IF ~guardrail_result.allowed
       THEN [llm_invoked |-> TRUE,
             update |->
               [requires_approval |-> TRUE,
                events |-> << create_event("validate_action", "Guardrails triggered",
                                [guardrail_blocked |-> TRUE,
                                 guardrail_reason |-> guardrail_result.reason,
                                 sanitized_action |-> redact_pii(state.recommended_action)]) >>]]
       ELSE IF Failed(r)
       THEN [llm_invoked |-> TRUE,
             update |->
               [requires_approval |-> TRUE,
                messages |-> << HumanMessage("Validation failed") >>,
                events |-> << create_event("validate_action", "Validation complete",
                                [requires_approval |-> TRUE,
                                 llm_reasoning |-> "Validation failed",
                                 guardrail_passed |-> TRUE,
                                 sanitized_action |-> state.recommended_action]) >>]]
       ELSE LET requires_approval ==
                    FinalDecision(LlmRequiresApproval(r.content), severity)
            IN [llm_invoked |-> TRUE,
                update |->
                  [requires_approval |-> requires_approval,
                   messages |-> << r >>,
                   events |-> << create_event("validate_action", "Validation complete",
                                   [requires_approval |-> requires_approval,
                                    llm_reasoning |-> r.content,
                                    guardrail_passed |-> TRUE,
                                    sanitized_action |-> redact_pii(state.recommended_action)]) >>]]

\* Variant: the except branch surfaces the redacted text
ValidationFailedRedacted(state) ==
    [requires_approval |-> TRUE,
     messages |-> << HumanMessage("Validation failed") >>,
     events |-> << create_event("validate_action", "Validation complete",
                     [requires_approval |-> TRUE,
                      llm_reasoning |-> "Validation failed",
                      guardrail_passed |-> TRUE,
                      sanitized_action |-> redact_pii(state.recommended_action)]) >>]

\* The except branch of validate_action: what it returns after an exception
\* anywhere in the try block (layer 1, the redaction, the model call or the
\* reading of its reply)
ValidationFailed(state) ==
    [requires_approval |-> TRUE,
     messages |-> << HumanMessage("Validation failed") >>,
     events |-> << create_event("validate_action", "Validation complete",
                     [requires_approval |-> TRUE,
                      llm_reasoning |-> "Validation failed",
                      guardrail_passed |-> TRUE,
                      sanitized_action |-> state.recommended_action]) >>]

\* validate_action: its partial update, and whether it invoked the Model
\* Gateway.  r is the gateway outcome of layer 2 and is not looked at when
\* layer 1 blocks.
validate_action(state, r) ==
    LET guardrail_result == Layer1(state)
        severity         == state.alert.severity
    IN IF ~guardrail_result.allowed
       THEN [llm_invoked |-> FALSE,
             update |->
               [requires_approval |-> TRUE,
                events |-> << create_event("validate_action", "Guardrails triggered",
                                [guardrail_blocked |-> TRUE,
                                 guardrail_reason |-> guardrail_result.reason,
                                 sanitized_action |-> redact_pii(state.recommended_action)]) >>]]
       ELSE IF Failed(r)
       THEN [llm_invoked |-> TRUE, update |-> ValidationFailed(state)]
       ELSE LET requires_approval ==
                    FinalDecision(LlmRequiresApproval(r.content), severity)
            IN [llm_invoked |-> TRUE,
                update |->
                  [requires_approval |-> requires_approval,
                   messages |-> << r >>,
                   events |-> << create_event("validate_action", "Validation complete",
                                   [requires_approval |-> requires_approval,
                                    llm_reasoning |-> r.content,
                                    guardrail_passed |-> TRUE,
                                    sanitized_action |-> redact_pii(state.recommended_action)]) >>]]

\* The messages validate_action hands to llm.invoke:
\* [system_prompt] + state["messages"] + [HumanMessage(prompt)], the prompt
\* being written around the sanitized action text
ModelCallInput(state) ==
    [system  |-> [type |-> "system", service |-> state.alert.service],
     history |-> state.messages,
     prompt  |-> HumanMessage([action |-> redact_pii(state.recommended_action),
                               severity |-> state.alert.severity,
                               confidence |-> state.confidence])]

\* What a recording gateway double keeps of one validate_action execution
GateRecord(state, r, run) ==
    [inputs |-> GateInputs(state),
     guardrail |-> Layer1(state),
     llm_invoked |-> run.llm_invoked,
     llm_answer |-> IF run.llm_invoked THEN r ELSE NotAsked,
     requires_approval |-> run.update.requires_approval]

-----------------------------------------------------------------------------
(* The graph: agents/graph.py *)

\* Tools registered with the ToolNode
RegisteredTools == {"get_service_metrics", "search_logs"}

should_continue(state) ==
    IF state.messages = <<>> THEN "next"
    ELSE IF HasToolCalls(state.messages[Len(state.messages)]) THEN "tools"
    ELSE "next"

\* for msg in reversed(messages): the walk goes on to older messages when the
\* first tool call of a message names neither of the two tools
RECURSIVE RouteFrom(_, _)
RouteFrom(messages, i) ==
    IF i = 0 THEN "analyze_metrics"
    ELSE IF HasToolCalls(messages[i]) /\ messages[i].tool_calls[1] = "search_logs"
    THEN "analyze_logs"
    ELSE IF HasToolCalls(messages[i]) /\ messages[i].tool_calls[1] = "get_service_metrics"
    THEN "analyze_metrics"
    ELSE RouteFrom(messages, i - 1)

route_tool_output(state) ==
    IF state.messages = <<>> THEN "analyze_metrics"
    ELSE RouteFrom(state.messages, Len(state.messages))

\* The ToolNode: one tool message per requested call, in request order; a name
\* it does not register is answered with an error message.
tool_node(state) ==
    LET calls == state.messages[Len(state.messages)].tool_calls IN
    [messages |-> [i \in 1..Len(calls) |->
                      ToolMessage(calls[i],
                                  IF calls[i] \in RegisteredTools THEN "success"
                                  ELSE "error")]]

\* Variant: an edge from plan_remediation straight to finalize
NextNodeSkippingValidation(node, state) ==
    CASE node = "gather_context"   -> "analyze_logs"
      [] node = "analyze_logs"     -> IF should_continue(state) = "tools" THEN "tools"
                                      ELSE "analyze_metrics"
      [] node = "analyze_metrics"  -> IF should_continue(state) = "tools" THEN "tools"
                                      ELSE "incident_rag"
      [] node = "tools"            -> route_tool_output(state)
      [] node = "incident_rag"     -> "plan_remediation"
      [] node = "plan_remediation" -> "finalize"
      [] node = "validate_action"  -> "finalize"
      [] node = "finalize"         -> "END"

\* The edges of the compiled graph: the node that follows `node` once its
\* update is merged into `state`
NextNode(node, state) ==
    CASE node = "gather_context"   -> "analyze_logs"
      [] node = "analyze_logs"     -> IF should_continue(state) = "tools" THEN "tools"
                                      ELSE "analyze_metrics"
      [] node = "analyze_metrics"  -> IF should_continue(state) = "tools" THEN "tools"
                                      ELSE "incident_rag"
      [] node = "tools"            -> route_tool_output(state)
      [] node = "incident_rag"     -> "plan_remediation"
      [] node = "plan_remediation" -> "validate_action"
      [] node = "validate_action"  -> "finalize"
      [] node = "finalize"         -> "END"

-----------------------------------------------------------------------------
(* Dictionaries *)

EmptyDict == [k \in {} |-> None]
\* Variant: a store that is not partitioned by key
PutUnderEveryKey(d, k, v) == [x \in DOMAIN d \cup {k} |-> v]

\* d[k] = v of a dict
Put(d, k, v) == [x \in DOMAIN d \cup {k} |-> IF x = k THEN v ELSE d[x]]
Remove(d, k) == [x \in DOMAIN d \ {k} |-> d[x]]

-----------------------------------------------------------------------------
(* The engine: triage_graph.ainvoke with MemorySaver and                   *)
(* interrupt_before=["finalize"]                                           *)

\* ainvoke(initial_state, config): a run from the entry point
StartFrame(triage_id, state) ==
    [triage_id |-> triage_id, values |-> state, next |-> "gather_context",
     steps |-> 0, resumed |-> FALSE]

\* Variant: a resumed run stops again at the interrupt it was stopped at
ResumeFrameStopsAgain(triage_id, checkpoint) ==
    [triage_id |-> triage_id, values |-> checkpoint.values,
     next |-> checkpoint.next, steps |-> 0, resumed |-> FALSE]

\* ainvoke(None, config): a run that picks up the thread's checkpoint
ResumeFrame(triage_id, checkpoint) ==
    [triage_id |-> triage_id, values |-> checkpoint.values,
     next |-> checkpoint.next, steps |-> 0, resumed |-> TRUE]

\* Variant: the checkpoint keeps the fields and the cursor, not the history
CheckpointWithoutHistory(frame) ==
    [values |-> [frame.values EXCEPT !.messages = <<>>], next |-> frame.next]

\* MemorySaver.put: the whole state and the node to run next
Checkpoint(frame) == [values |-> frame.values, next |-> frame.next]

\* The step budget is looked at first, then the end, then the interrupt; a
\* resumed run passes the interrupt it was stopped at.
OutOfSteps(frame)  == frame.steps >= RecursionLimit

\* Variant: the graph is compiled without interrupt_before
NeverInterrupted(frame) == FALSE

Interrupted(frame) == frame.next = "finalize" /\ ~(frame.resumed /\ frame.steps = 0)
Returns(frame)     == ~OutOfSteps(frame) /\ (frame.next = "END" \/ Interrupted(frame))

\* Task t's ainvoke is about to execute `node`
AtNode(t, node) ==
    /\ t \in DOMAIN frames
    /\ frames[t].next = node
    /\ ~OutOfSteps(frames[t])
    /\ ~Interrupted(frames[t])

\* The frame after `node` returned `update`: merge, route, count the superstep
Advance(frame, node, update) ==
    LET values == ApplyUpdate(frame.values, update) IN
    [frame EXCEPT !.values = values, !.next = NextNode(node, values),
                  !.steps = frame.steps + 1]

\* MetricsTracker.__exit__ -> add_node_metrics.  The stages catch their own
\* errors inside the tracked block, so the tracker never sees an exception.
NodeMetrics(node_name, tool_calls) ==
    [node_name |-> node_name, tool_calls |-> tool_calls, success |-> TRUE,
     error |-> None]

\* incident_rag, finalize and the tool node run without a tracker
Untracked == [node_name |-> None]

add_node_metrics(store, triage_id, node_metrics) ==
    IF triage_id \in DOMAIN store
    THEN [store EXCEPT ![triage_id].node_metrics = Append(@, node_metrics)]
    ELSE store

ToolRounds(state) ==
    Cardinality({i \in 1..Len(state.messages) : state.messages[i].type = "tool"})

\* A reply the gateway may give at this point of the session
Offered(state, r) ==
    IF Failed(r) THEN TRUE
    ELSE IF r.tool_calls = <<>> THEN TRUE
    ELSE ToolRounds(state) < MaxToolRounds

-----------------------------------------------------------------------------
(* Inputs *)

\* Ids uuid4() hands to POST /alerts/triage, and an id it never hands out
TriageIds == {"t1"}
UnknownId == "t0"
RequestIds == TriageIds \cup {UnknownId}

ReportingService ==
    <<"r", "e", "p", "o", "r", "t", "i", "n", "g", "-", "s", "e", "r", "v", "i", "c", "e">>

Services   == {PaymentService, ReportingService}
Severities == {"critical", "high", "medium", "low"}

\* AlertPayload
Alerts == [id : {"a1"}, service : Services, severity : Severities,
           alert_type : {"latency_spike"}]

\* Concurrent requests to POST /alerts/triage/{id}/approve
Clients == {"c1"}

Worker == "worker"

-----------------------------------------------------------------------------
(* Results: models/alert.py TriageResult as the three builders fill it *)

NoText == << "None" >>
ManualInvestigation ==
    <<"M", "a", "n", "u", "a", "l", " ", "i", "n", "v", "e", "s", "t", "i", "g", "a", "t", "i", "o", "n",
      " ", "r", "e", "q", "u", "i", "r", "e", "d">>
ActionApproved ==
    <<"A", "c", "t", "i", "o", "n", " ", "a", "p", "p", "r", "o", "v", "e", "d", ".">>

\* dict.get(key) of a state
Get(state, key) == IF key \in DOMAIN state THEN state[key] ELSE None

\* Variant: the result is always handed out as pending
RunResultAlwaysPending(triage_id, alert, final_state) ==
    [triage_id |-> triage_id, alert_id |-> alert.id, service |-> alert.service,
     severity |-> alert.severity,
     status |-> "pending",
     logs_summary |-> IF final_state.logs_summary = ""
                      THEN "Investigation completed. See trace."
                      ELSE final_state.logs_summary,
     metrics_summary |-> IF final_state.metrics_summary = ""
                         THEN "Metrics analyzed. See trace."
                         ELSE final_state.metrics_summary,
     hypothesis |-> IF final_state.hypothesis = "" THEN "Analysis in progress..."
                    ELSE final_state.hypothesis,
     recommended_action |-> IF final_state.recommended_action = <<>>
                            THEN ManualInvestigation
                            ELSE final_state.recommended_action,
     confidence |-> final_state.confidence,
     requires_approval |-> final_state.requires_approval,
     events |-> final_state.events,
     completed_at |-> Get(final_state, "completed_at")]

\* run_triage_workflow: the result built from the state ainvoke returned
RunResult(triage_id, alert, final_state) ==
    [triage_id |-> triage_id, alert_id |-> alert.id, service |-> alert.service,
     severity |-> alert.severity,
     status |-> IF final_state.requires_approval THEN "pending" ELSE "approved",
     logs_summary |-> IF final_state.logs_summary = ""
                      THEN "Investigation completed. See trace."
                      ELSE final_state.logs_summary,
     metrics_summary |-> IF final_state.metrics_summary = ""
                         THEN "Metrics analyzed. See trace."
                         ELSE final_state.metrics_summary,
     hypothesis |-> IF final_state.hypothesis = "" THEN "Analysis in progress..."
                    ELSE final_state.hypothesis,
     recommended_action |-> IF final_state.recommended_action = <<>>
                            THEN ManualInvestigation
                            ELSE final_state.recommended_action,
     confidence |-> final_state.confidence,
     requires_approval |-> final_state.requires_approval,
     events |-> final_state.events,
     completed_at |-> Get(final_state, "completed_at")]

\* approve_triage_workflow: the result built after the resumed ainvoke
ApprovedResult(triage_id, final_state) ==
    [triage_id |-> triage_id, alert_id |-> final_state.alert.id,
     service |-> final_state.alert.service,
     severity |-> final_state.alert.severity,
     status |-> "approved",
     logs_summary |-> IF final_state.logs_summary = ""
                      THEN "Investigation completed. See trace."
                      ELSE final_state.logs_summary,
     metrics_summary |-> IF final_state.metrics_summary = ""
                         THEN "Metrics analyzed. See trace."
                         ELSE final_state.metrics_summary,
     hypothesis |-> IF final_state.hypothesis = "" THEN "Analysis complete."
                    ELSE final_state.hypothesis,
     recommended_action |-> IF final_state.recommended_action = <<>>
                            THEN ActionApproved
                            ELSE final_state.recommended_action,
     confidence |-> final_state.confidence,
     requires_approval |-> FALSE,
     events |-> final_state.events,
     completed_at |-> Get(final_state, "completed_at")]

\* triage_worker: the result stored when the workflow raised
FailedResult(triage_id, alert, error) ==
    [triage_id |-> triage_id, alert_id |-> alert.id, service |-> alert.service,
     severity |-> alert.severity,
     status |-> "rejected",
     logs_summary |-> None, metrics_summary |-> None, hypothesis |-> None,
     recommended_action |-> NoText,
     confidence |-> 0,
     requires_approval |-> TRUE,
     events |-> << [node |-> "error", summary |-> error] >>,
     completed_at |-> None]

-----------------------------------------------------------------------------
(* State after start-up: main.py lifespan has launched the worker *)

NoResponse == [code |-> "none"]

\* run_experiment_parallel: the variants of one run, and a variant whose
\* run_variant coroutine has not started
Variants   == {"control", "nemotron"}
NotStarted == [pc |-> "idle"]

\* No node has executed yet
NoStep == [task |-> None, triage_id |-> None, node |-> None]

Init ==
    /\ triage_queue = <<>>
    /\ triage_results = EmptyDict
    /\ checkpointer = EmptyDict
    /\ metrics_store = EmptyDict
    /\ worker = [pc |-> "get"]
    /\ clients = [c \in Clients |-> [pc |-> "idle", response |-> NoResponse]]
    /\ frames = EmptyDict
    /\ gate_log = EmptyDict
    /\ finalize_log = EmptyDict
    /\ step_log = NoStep
    /\ variant_runs = [v \in Variants |-> NotStarted]

\* An id uuid4() has not produced yet
Fresh(id) ==
    /\ id \notin DOMAIN checkpointer
    /\ \A i \in 1..Len(triage_queue) : triage_queue[i].triage_id # id

-----------------------------------------------------------------------------
(* POST /alerts/triage: api/routes/alerts.py triage_alert -> enqueue_alert *)

TriageAlert(id, alert) ==
    /\ Fresh(id)
    /\ triage_queue' = Append(triage_queue, [triage_id |-> id, alert |-> alert])
    /\ UNCHANGED <<triage_results, checkpointer, metrics_store, worker, clients,
                   frames, gate_log, finalize_log,
                   step_log,
                   variant_runs>>

-----------------------------------------------------------------------------
(* Supersteps of a running ainvoke, executed by the task that awaits it *)

\* Merge the update, write the checkpoint, record the stage metrics
Superstep(t, node, outcome, update, metrics) ==
    \E returned \in {update} :
    \E frame \in {Advance(frames[t], node, returned)} :
    /\ frames' = [frames EXCEPT ![t] = frame]
    /\ step_log' = [task |-> t, triage_id |-> frame.triage_id, node |-> node,
                    outcome |-> outcome, update |-> returned]
    /\ checkpointer' = Put(checkpointer, frame.triage_id, Checkpoint(frame))
    /\ metrics_store' = IF metrics = Untracked THEN metrics_store
                        ELSE add_node_metrics(metrics_store, frame.triage_id, metrics)

ToolCallCount(r) == IF Failed(r) THEN 0 ELSE Len(r.tool_calls)

GatherContext(t, replies) ==
    /\ AtNode(t, "gather_context")
    /\ \E r \in replies :
        /\ Offered(frames[t].values, r)
        /\ Superstep(t, "gather_context", r, gather_context(frames[t].values, r),
                     NodeMetrics("gather_context", ToolCallCount(r)))
    /\ UNCHANGED <<triage_queue, triage_results, worker, clients, gate_log,
                   finalize_log,
                   variant_runs>>

AnalyzeLogs(t, replies) ==
    /\ AtNode(t, "analyze_logs")
    /\ \E r \in replies :
        /\ Offered(frames[t].values, r)
        /\ Superstep(t, "analyze_logs", r, analyze_logs(frames[t].values, r),
                     NodeMetrics("analyze_logs", ToolCallCount(r)))
    /\ UNCHANGED <<triage_queue, triage_results, worker, clients, gate_log,
                   finalize_log,
                   variant_runs>>

AnalyzeMetrics(t, replies) ==
    /\ AtNode(t, "analyze_metrics")
    /\ \E r \in replies :
        /\ Offered(frames[t].values, r)
        /\ Superstep(t, "analyze_metrics", r, analyze_metrics(frames[t].values, r),
                     NodeMetrics("analyze_metrics", ToolCallCount(r)))
    /\ UNCHANGED <<triage_queue, triage_results, worker, clients, gate_log,
                   finalize_log,
                   variant_runs>>

Tools(t) ==
    /\ AtNode(t, "tools")
    /\ Superstep(t, "tools", NotAsked, tool_node(frames[t].values), Untracked)
    /\ UNCHANGED <<triage_queue, triage_results, worker, clients, gate_log,
                   finalize_log,
                   variant_runs>>

IncidentRag(t, replies) ==
    /\ AtNode(t, "incident_rag")
    /\ \E r \in replies :
        Superstep(t, "incident_rag", r, incident_rag(frames[t].values, r), Untracked)
    /\ UNCHANGED <<triage_queue, triage_results, worker, clients, gate_log,
                   finalize_log,
                   variant_runs>>

PlanRemediation(t, replies) ==
    /\ AtNode(t, "plan_remediation")
    /\ \E r \in replies :
        Superstep(t, "plan_remediation", r, plan_remediation(frames[t].values, r),
                  NodeMetrics("plan_remediation", 0))
    /\ UNCHANGED <<triage_queue, triage_results, worker, clients, gate_log,
                   finalize_log,
                   variant_runs>>

\* validate_action with a TriageGuardrails double whose validate_action raises:
\* the except branch is taken before the model is reached
ValidateActionRulesFail(t) ==
    /\ AtNode(t, "validate_action")
    /\ Superstep(t, "validate_action", Raised, ValidationFailed(frames[t].values),
                 NodeMetrics("validate_action", 0))
    /\ gate_log' = Put(gate_log, frames[t].triage_id,
                       [inputs |-> GateInputs(frames[t].values),
                        guardrail |-> Raised,
                        llm_invoked |-> FALSE,
                        llm_answer |-> NotAsked,
                        requires_approval |-> TRUE])
    /\ UNCHANGED <<triage_queue, triage_results, worker, clients, finalize_log,
                   variant_runs>>

\* Layer 2 has an outcome only when layer 1 lets the action through
GatewayOutcomes(state, replies) ==
    IF Layer1(state).allowed THEN replies ELSE {NotAsked}

ValidateAction(t, replies) ==
    /\ AtNode(t, "validate_action")
    /\ \E r \in GatewayOutcomes(frames[t].values, replies) :
       \E run \in {validate_action(frames[t].values, r)} :
        /\ Superstep(t, "validate_action", r, run.update,
                     NodeMetrics("validate_action", 0))
        /\ gate_log' = Put(gate_log, frames[t].triage_id,
                           GateRecord(frames[t].values, r, run))
    /\ UNCHANGED <<triage_queue, triage_results, worker, clients, finalize_log,
                   variant_runs>>

Finalize(t) ==
    /\ AtNode(t, "finalize")
    /\ Superstep(t, "finalize", NotAsked, finalize(frames[t].values), Untracked)
    /\ finalize_log' =
         Put(finalize_log, frames[t].triage_id,
             IF frames[t].triage_id \in DOMAIN finalize_log
             THEN Append(finalize_log[frames[t].triage_id], t) ELSE << t >>)
    /\ UNCHANGED <<triage_queue, triage_results, worker, clients, gate_log,
                   variant_runs>>

-----------------------------------------------------------------------------
(* The worker: services/triage.py triage_worker around run_triage_workflow *)

start_triage_metrics(store, triage_id, alert) ==
    Put(store, triage_id,
        [triage_id |-> triage_id, alert_id |-> alert.id, service |-> alert.service,
         node_metrics |-> <<>>, ended |-> FALSE])

end_triage_metrics(store, triage_id) ==
    IF triage_id \in DOMAIN store THEN [store EXCEPT ![triage_id].ended = TRUE]
    ELSE store

\* triage_queue.get(), start_triage_metrics, and run_triage_workflow up to its
\* first ainvoke, which stores the checkpoint of the input
WorkerGet ==
    /\ worker.pc = "get"
    /\ triage_queue # <<>>
    /\ LET item  == Head(triage_queue)
           state == InitialState(item.triage_id, item.alert)
           frame == StartFrame(item.triage_id, state)
       IN /\ triage_queue' = Tail(triage_queue)
          /\ metrics_store' = start_triage_metrics(metrics_store, item.triage_id, item.alert)
          /\ worker' = [pc |-> "run", triage_id |-> item.triage_id, alert |-> item.alert]
          /\ frames' = Put(frames, Worker, frame)
          /\ checkpointer' = Put(checkpointer, item.triage_id, Checkpoint(frame))
    /\ UNCHANGED <<triage_results, clients, gate_log, finalize_log,
                   step_log,
                   variant_runs>>

\* The first ainvoke returned with requires_approval false: the second
\* ainvoke(None) of run_triage_workflow starts
WorkerAutoResume ==
    /\ worker.pc = "run"
    /\ Worker \in DOMAIN frames
    /\ Returns(frames[Worker])
    /\ ~frames[Worker].values.requires_approval
    /\ frames' = [frames EXCEPT
                    ![Worker] = ResumeFrame(worker.triage_id, checkpointer[worker.triage_id])]
    /\ worker' = [worker EXCEPT !.pc = "auto_finalize"]
    /\ UNCHANGED <<triage_queue, triage_results, checkpointer, metrics_store,
                   clients, gate_log, finalize_log,
                   step_log,
                   variant_runs>>

\* run_triage_workflow returns its result and the worker stores it
WorkerStore ==
    /\ worker.pc \in {"run", "auto_finalize"}
    /\ Worker \in DOMAIN frames
    /\ Returns(frames[Worker])
    /\ worker.pc = "run" => frames[Worker].values.requires_approval
    /\ triage_results' = Put(triage_results, worker.triage_id,
                             RunResult(worker.triage_id, worker.alert,
                                       frames[Worker].values))
    /\ metrics_store' = end_triage_metrics(metrics_store, worker.triage_id)
    /\ frames' = Remove(frames, Worker)
    /\ worker' = [pc |-> "get"]
    /\ UNCHANGED <<triage_queue, checkpointer, clients, gate_log, finalize_log,
                   step_log,
                   variant_runs>>

\* Variant: the worker drops a session whose workflow raised
WorkerFailWithoutResult ==
    /\ worker.pc \in {"run", "auto_finalize"}
    /\ Worker \in DOMAIN frames
    /\ OutOfSteps(frames[Worker])
    /\ metrics_store' = end_triage_metrics(metrics_store, worker.triage_id)
    /\ frames' = Remove(frames, Worker)
    /\ worker' = [pc |-> "get"]
    /\ UNCHANGED <<triage_queue, triage_results, checkpointer, clients, gate_log,
                   finalize_log, step_log, variant_runs>>

\* ainvoke raised GraphRecursionError: the worker stores a rejected result
WorkerFail ==
    /\ worker.pc \in {"run", "auto_finalize"}
    /\ Worker \in DOMAIN frames
    /\ OutOfSteps(frames[Worker])
    /\ triage_results' = Put(triage_results, worker.triage_id,
                             FailedResult(worker.triage_id, worker.alert,
                                          "Recursion limit reached"))
    /\ metrics_store' = end_triage_metrics(metrics_store, worker.triage_id)
    /\ frames' = Remove(frames, Worker)
    /\ worker' = [pc |-> "get"]
    /\ UNCHANGED <<triage_queue, checkpointer, clients, gate_log, finalize_log,
                   step_log,
                   variant_runs>>

-----------------------------------------------------------------------------
(* POST /alerts/triage/{id}/approve: approve_action -> approve_triage ->    *)
(* approve_triage_workflow                                                 *)

\* HTTPException(404) for the requested id
NotFound(id) == [code |-> "404", triage_id |-> id]

\* approve_action's reply to a result
Approved(result) ==
    [code |-> "200", triage_id |-> result.triage_id, status |-> result.status,
     action |-> result.recommended_action]

\* Variant: approve_triage has no early return and stores whatever the resume
\* produced, a None entry included
ApproveBeginStoresAlways(c, id) ==
    /\ clients[c].pc = "idle"
    /\ IF id \notin DOMAIN checkpointer
       THEN /\ clients' = [clients EXCEPT ![c] = [pc |-> "idle", response |-> NotFound(id)]]
            /\ triage_results' = Put(triage_results, id, [status |-> None])
            /\ UNCHANGED frames
       ELSE /\ clients' = [clients EXCEPT ![c] = [pc |-> "resuming", triage_id |-> id,
                                                  response |-> NoResponse]]
            /\ frames' = Put(frames, c, ResumeFrame(id, checkpointer[id]))
            /\ UNCHANGED triage_results
    /\ UNCHANGED <<triage_queue, checkpointer, metrics_store, worker,
                   gate_log, finalize_log,
                   step_log,
                   variant_runs>>

\* Variant: approve_triage resumes whatever thread has a checkpoint, without
\* looking the id up in triage_results
ApproveBeginWithoutLookup(c, id) ==
    /\ clients[c].pc = "idle"
    /\ IF id \notin DOMAIN checkpointer
       THEN /\ clients' = [clients EXCEPT ![c] = [pc |-> "idle", response |-> NotFound(id)]]
            /\ UNCHANGED frames
       ELSE /\ clients' = [clients EXCEPT ![c] = [pc |-> "resuming", triage_id |-> id,
                                                  response |-> NoResponse]]
            /\ frames' = Put(frames, c, ResumeFrame(id, checkpointer[id]))
    /\ UNCHANGED <<triage_queue, triage_results, checkpointer, metrics_store, worker,
                   gate_log, finalize_log,
                   step_log,
                   variant_runs>>

\* approve_triage returns None for an id it holds no result for, and when the
\* resumed ainvoke raises at once (no checkpoint for the thread); otherwise
\* the resumed ainvoke starts.
ApproveBegin(c, id) ==
    /\ clients[c].pc = "idle"
    /\ IF id \notin DOMAIN triage_results \/ id \notin DOMAIN checkpointer
       THEN /\ clients' = [clients EXCEPT ![c] = [pc |-> "idle", response |-> NotFound(id)]]
            /\ UNCHANGED frames
       ELSE /\ clients' = [clients EXCEPT ![c] = [pc |-> "resuming", triage_id |-> id,
                                                  response |-> NoResponse]]
            /\ frames' = Put(frames, c, ResumeFrame(id, checkpointer[id]))
    /\ UNCHANGED <<triage_queue, triage_results, checkpointer, metrics_store, worker,
                   gate_log, finalize_log,
                   step_log,
                   variant_runs>>

\* The resumed ainvoke ended.  When it returned, the approved result is built
\* and stored; when it raised (GraphRecursionError), approve_triage swallows
\* the error and returns None.
ApproveEnd(c) ==
    /\ clients[c].pc = "resuming"
    /\ Returns(frames[c]) \/ OutOfSteps(frames[c])
    /\ LET result == ApprovedResult(clients[c].triage_id, frames[c].values) IN
       IF OutOfSteps(frames[c])
       THEN /\ clients' = [clients EXCEPT
                             ![c] = [pc |-> "idle",
                                     response |-> NotFound(clients[c].triage_id)]]
            /\ UNCHANGED triage_results
       ELSE /\ triage_results' = Put(triage_results, clients[c].triage_id, result)
            /\ clients' = [clients EXCEPT
                             ![c] = [pc |-> "idle", response |-> Approved(result)]]
    /\ frames' = Remove(frames, c)
    /\ UNCHANGED <<triage_queue, checkpointer, metrics_store, worker, gate_log,
                   finalize_log,
                   step_log,
                   variant_runs>>

-----------------------------------------------------------------------------
(* POST /alerts/triage/{id}/reject: reject_action *)

RejectAction(id) ==
    /\ id \in DOMAIN triage_results
    /\ triage_results' = [triage_results EXCEPT ![id].status = "rejected"]
    /\ UNCHANGED <<triage_queue, checkpointer, metrics_store, worker, clients, frames,
                   gate_log, finalize_log,
                   step_log,
                   variant_runs>>

-----------------------------------------------------------------------------
Tasks == {Worker} \cup Clients

\* The replies the Model Gateway gives in the checked runs
GateGather  == { AIMessage("context", <<>>) }
GateLogs    == { AIMessage("log findings", <<>>), AIMessage("", <<"search_logs">>),
                 Raised }
GateMetrics == { AIMessage("metric findings", <<>>),
                 AIMessage("", <<"get_service_metrics">>) }
GateRag     == { AIMessage("incident analysis", <<>>) }
GatePlan    == PlanReplies \cup {Raised}
GateSafety  == SafetyReplies \cup {Raised, Malformed}

Next ==
    \/ \E id \in TriageIds, alert \in Alerts : TriageAlert(id, alert)
    \/ WorkerGet
    \/ \E t \in Tasks : GatherContext(t, GateGather)
    \/ \E t \in Tasks : AnalyzeLogs(t, GateLogs)
    \/ \E t \in Tasks : AnalyzeMetrics(t, GateMetrics)
    \/ \E t \in Tasks : Tools(t)
    \/ \E t \in Tasks : IncidentRag(t, GateRag)
    \/ \E t \in Tasks : PlanRemediation(t, GatePlan)
    \/ \E t \in Tasks : ValidateAction(t, GateSafety)
    \/ \E t \in Tasks : Finalize(t)
    \/ WorkerAutoResume
    \/ WorkerStore
    \/ WorkerFail
    \/ \E c \in Clients, id \in RequestIds : ApproveBegin(c, id)
    \/ \E c \in Clients : ApproveEnd(c)
    \/ \E id \in RequestIds : RejectAction(id)

Spec == Init /\ [][Next]_vars

-----------------------------------------------------------------------------
(* The pipeline under every outcome of its stages: tool requests of all the *)
(* bound tools, failed model calls, replies that are not messages, and a    *)
(* guardrail double that raises.                                            *)

StageAlerts ==
    { a \in Alerts : \/ a.service = ReportingService /\ a.severity = "low"
                     \/ a.service = PaymentService /\ a.severity = "critical" }

StageGather  == GatherReplies \cup {Raised, Malformed}
StageLogs    == LogsReplies \cup {Raised, Malformed}
StageMetrics == MetricsReplies \cup {Raised, Malformed}
StageRag     == GateRag \cup {Raised, Malformed}
StagePlan    ==
    { AIMessage(PlanContent("root cause", RestartHost, <<"0", ".", "9">>), <<>>),
      Raised, Malformed }
StageSafety  == { SafetyReply(<<>>, <<"N", "O">>), Raised }

NextStages ==
    \/ \E id \in TriageIds, alert \in StageAlerts : TriageAlert(id, alert)
    \/ WorkerGet
    \/ \E t \in Tasks : GatherContext(t, StageGather)
    \/ \E t \in Tasks : AnalyzeLogs(t, StageLogs)
    \/ \E t \in Tasks : AnalyzeMetrics(t, StageMetrics)
    \/ \E t \in Tasks : Tools(t)
    \/ \E t \in Tasks : IncidentRag(t, StageRag)
    \/ \E t \in Tasks : PlanRemediation(t, StagePlan)
    \/ \E t \in Tasks : ValidateAction(t, StageSafety)
    \/ \E t \in Tasks : ValidateActionRulesFail(t)
    \/ \E t \in Tasks : Finalize(t)
    \/ WorkerAutoResume
    \/ WorkerStore
    \/ WorkerFail
    \/ \E c \in Clients, id \in TriageIds : ApproveBegin(c, id)
    \/ \E c \in Clients : ApproveEnd(c)

SpecStages == Init /\ [][NextStages]_vars

-----------------------------------------------------------------------------
(* Experiments: agents/experiments/runner.py run_experiment_parallel gathers *)
(* one run_variant coroutine per variant; each calls run_triage_workflow    *)
(* with an id of its own and the alert of the run.  The coroutines take     *)
(* turns between the supersteps of their ainvoke calls.                      *)

ExperimentIds   == {"e1", "e2"}
ExperimentAlert == [id |-> "a1", service |-> ReportingService, severity |-> "low",
                    alert_type |-> "latency_spike"]

\* run_variant up to the first ainvoke of run_triage_workflow
VariantStart(v, id) ==
    /\ variant_runs[v] = NotStarted
    /\ Fresh(id)
    /\ LET frame == StartFrame(id, InitialState(id, ExperimentAlert)) IN
       /\ frames' = Put(frames, v, frame)
       /\ checkpointer' = Put(checkpointer, id, Checkpoint(frame))
    /\ variant_runs' = [variant_runs EXCEPT ![v] = [pc |-> "run", triage_id |-> id]]
    /\ UNCHANGED <<triage_queue, triage_results, metrics_store, worker, clients,
                   gate_log, finalize_log, step_log>>

\* The auto-resume of run_triage_workflow inside a variant
VariantAutoResume(v) ==
    /\ variant_runs[v].pc = "run"
    /\ Returns(frames[v])
    /\ ~frames[v].values.requires_approval
    /\ frames' = [frames EXCEPT
                    ![v] = ResumeFrame(variant_runs[v].triage_id,
                                       checkpointer[variant_runs[v].triage_id])]
    /\ variant_runs' = [variant_runs EXCEPT ![v].pc = "auto_finalize"]
    /\ UNCHANGED <<triage_queue, triage_results, checkpointer, metrics_store, worker,
                   clients, gate_log, finalize_log, step_log>>

\* run_triage_workflow returned: run_variant returns the result
VariantReturn(v) ==
    /\ variant_runs[v].pc \in {"run", "auto_finalize"}
    /\ Returns(frames[v])
    /\ variant_runs[v].pc = "run" => frames[v].values.requires_approval
    /\ variant_runs' =
         [variant_runs EXCEPT
            ![v] = [pc |-> "done", triage_id |-> variant_runs[v].triage_id,
                    success |-> TRUE,
                    result |-> RunResult(variant_runs[v].triage_id, ExperimentAlert,
                                         frames[v].values)]]
    /\ frames' = Remove(frames, v)
    /\ UNCHANGED <<triage_queue, triage_results, checkpointer, metrics_store, worker,
                   clients, gate_log, finalize_log, step_log>>

\* run_triage_workflow raised: run_variant returns the error
VariantFail(v) ==
    /\ variant_runs[v].pc \in {"run", "auto_finalize"}
    /\ OutOfSteps(frames[v])
    /\ variant_runs' =
         [variant_runs EXCEPT
            ![v] = [pc |-> "done", triage_id |-> variant_runs[v].triage_id,
                    success |-> FALSE, result |-> None]]
    /\ frames' = Remove(frames, v)
    /\ UNCHANGED <<triage_queue, triage_results, checkpointer, metrics_store, worker,
                   clients, gate_log, finalize_log, step_log>>

VariantGather  == { AIMessage("context", <<>>) }
VariantLogs    == { AIMessage("log findings", <<>>), AIMessage("", <<"search_logs">>) }
VariantMetrics == { AIMessage("metric findings", <<>>) }
VariantPlan    ==
    { AIMessage(PlanContent("root cause", ScaleReplicas, <<"0", ".", "9">>), <<>>),
      AIMessage(PlanContent("root cause", TerminatePod, <<"0", ".", "9", "5">>), <<>>) }
VariantSafety  == { SafetyReply(<<>>, <<"N", "O">>) }

NextExperiment ==
    \/ \E v \in Variants, id \in ExperimentIds : VariantStart(v, id)
    \/ \E v \in Variants : GatherContext(v, VariantGather)
    \/ \E v \in Variants : AnalyzeLogs(v, VariantLogs)
    \/ \E v \in Variants : AnalyzeMetrics(v, VariantMetrics)
    \/ \E v \in Variants : Tools(v)
    \/ \E v \in Variants : IncidentRag(v, GateRag)
    \/ \E v \in Variants : PlanRemediation(v, VariantPlan)
    \/ \E v \in Variants : ValidateAction(v, VariantSafety)
    \/ \E v \in Variants : Finalize(v)
    \/ \E v \in Variants : VariantAutoResume(v)
    \/ \E v \in Variants : VariantReturn(v)
    \/ \E v \in Variants : VariantFail(v)

SpecExperiment == Init /\ [][NextExperiment]_vars

-----------------------------------------------------------------------------
(* The worker alone, with two alerts to go through.  The worker task is     *)
(* scheduled whenever it can take a step: the queue hands over an alert     *)
(* that is there, every model call and tool call returns or raises.         *)

WorkerIds    == {"t1", "t2"}
WorkerAlerts == { a \in Alerts : a.service = ReportingService /\ a.severity = "low" }
WorkerLogs   == { AIMessage("log findings", <<>>), AIMessage("", <<"search_logs">>) }
WorkerPlan   ==
    { AIMessage(PlanContent("root cause", ScaleReplicas, <<"0", ".", "9">>), <<>>) }
WorkerSafety == { SafetyReply(<<>>, <<"N", "O">>), Raised }

WorkerStep ==
    \/ WorkerGet
    \/ GatherContext(Worker, GateGather)
    \/ AnalyzeLogs(Worker, WorkerLogs)
    \/ AnalyzeMetrics(Worker, VariantMetrics)
    \/ Tools(Worker)
    \/ IncidentRag(Worker, GateRag)
    \/ PlanRemediation(Worker, WorkerPlan)
    \/ ValidateAction(Worker, WorkerSafety)
    \/ Finalize(Worker)
    \/ WorkerAutoResume
    \/ WorkerStore
    \/ WorkerFail

NextWorker ==
    \/ \E id \in WorkerIds, alert \in WorkerAlerts : TriageAlert(id, alert)
    \/ WorkerStep

SpecWorker == Init /\ [][NextWorker]_vars /\ WF_vars(WorkerStep)

-----------------------------------------------------------------------------
(* Shutdown: lifespan cancels the worker task (main.py).  The task is       *)
(* suspended at an await, in triage_queue.get() or inside ainvoke, and      *)
(* CancelledError is raised there.  It is not an Exception, so neither the  *)
(* stages nor the worker's inner handler catch it: the stage in progress    *)
(* returns no update, ainvoke is left, and the outer handler breaks the     *)
(* loop.                                                                    *)

\* Variant: CancelledError is caught by the handlers for Exception, so a
\* session in flight is recorded as failed and the loop goes on
CancelWorkerCaughtAsException ==
    /\ worker.pc # "cancelled"
    /\ IF worker.pc = "get"
       THEN /\ worker' = [pc |-> "cancelled"]
            /\ UNCHANGED <<triage_results, metrics_store>>
       ELSE /\ triage_results' = Put(triage_results, worker.triage_id,
                                     FailedResult(worker.triage_id, worker.alert,
                                                  "cancelled"))
            /\ metrics_store' = end_triage_metrics(metrics_store, worker.triage_id)
            /\ worker' = [pc |-> "get"]
    /\ frames' = Remove(frames, Worker)
    /\ UNCHANGED <<triage_queue, checkpointer, clients, gate_log, finalize_log,
                   step_log, variant_runs>>

\* worker_task.cancel() and the worker's exit through
\* `except asyncio.CancelledError: break`
CancelWorker ==
    /\ worker.pc # "cancelled"
    /\ worker' = [pc |-> "cancelled"]
    /\ frames' = Remove(frames, Worker)
    /\ UNCHANGED <<triage_queue, triage_results, checkpointer, metrics_store,
                   clients, gate_log, finalize_log, step_log, variant_runs>>

NextShutdown ==
    \/ \E id \in WorkerIds, alert \in WorkerAlerts : TriageAlert(id, alert)
    \/ WorkerStep
    \/ CancelWorker

SpecShutdown == Init /\ [][NextShutdown]_vars

-----------------------------------------------------------------------------
(* The deterministic guardrail layer on its own:                           *)
(* TriageGuardrails.validate_action applied to one proposed action.        *)

CheckoutService == <<"c", "h", "e", "c", "k", "o", "u", "t">>
TerminatePodLower == <<"t", "e", "r", "m", "i", "n", "a", "t", "e", " ", "p", "o", "d", "-", "7">>
ShutdownThenDelete == <<"s", "h", "u", "t", "d", "o", "w", "n", " ", "n", "o", "d", "e", " ", "t", "h", "e", "n", " ", "d", "e", "l", "e", "t", "e", " ", "p", "o", "d">>
ScaleToZeroForced == <<"f", "o", "r", "c", "e", "_", "r", "e", "s", "t", "a", "r", "t", " ", "a", "n", "d", " ", "s", "c", "a", "l", "e", "_", "t", "o", "_", "z", "e", "r", "o">>

GuardrailActions ==
    {TerminatePodLower, TerminatePod, ShutdownThenDelete, ScaleToZeroForced,
     ScaleReplicas, RestartHost}
GuardrailServices == {CheckoutService, ReportingService, PaymentService}
GuardrailConfidences == {95, 70, 69, 50}

GuardrailCallId == "call"

\* A call that has not returned yet
GuardrailPending(action, service, confidence) ==
    [inputs |-> [action |-> action, service |-> service, confidence |-> confidence],
     returned |-> FALSE, guardrail |-> NotAsked]

InitGuardrail ==
    /\ triage_queue = <<>>
    /\ triage_results = EmptyDict
    /\ checkpointer = EmptyDict
    /\ metrics_store = EmptyDict
    /\ worker = [pc |-> "get"]
    /\ clients = [c \in Clients |-> [pc |-> "idle", response |-> NoResponse]]
    /\ frames = EmptyDict
    /\ \E action \in GuardrailActions, service \in GuardrailServices,
          confidence \in GuardrailConfidences :
          gate_log = Put(EmptyDict, GuardrailCallId,
                         GuardrailPending(action, service, confidence))
    /\ finalize_log = EmptyDict
    /\ step_log = NoStep
    /\ variant_runs = [v \in Variants |-> NotStarted]

GuardrailCall ==
    /\ ~gate_log[GuardrailCallId].returned
    /\ LET inputs == gate_log[GuardrailCallId].inputs IN
       gate_log' = [gate_log EXCEPT
                      ![GuardrailCallId].returned = TRUE,
                      ![GuardrailCallId].guardrail =
                          GuardrailValidate(inputs.action, inputs.service,
                                            inputs.confidence)]
    /\ UNCHANGED <<triage_queue, triage_results, checkpointer, metrics_store,
                   worker, clients, frames, finalize_log, step_log, variant_runs>>

NextGuardrail == GuardrailCall

SpecGuardrail == InitGuardrail /\ [][NextGuardrail]_vars

-----------------------------------------------------------------------------
(* Two approve requests in flight: approve_action is a coroutine, so a     *)
(* second request is served while the first one awaits its ainvoke.  Each  *)
(* ainvoke(None) loads the thread's checkpoint when it starts.             *)

ApproveClients == {"c1", "c2"}

\* One alert the guardrails hold for approval, one that is auto-approved
ApprovalAlerts ==
    { a \in Alerts : a.severity = "low" }

ApprovalLogs    == { AIMessage("log findings", <<>>) }
ApprovalMetrics == { AIMessage("metric findings", <<>>) }
ApprovalSafety  == { SafetyReply(<<>>, <<"N", "O">>) }

InitApprovals ==
    /\ triage_queue = <<>>
    /\ triage_results = EmptyDict
    /\ checkpointer = EmptyDict
    /\ metrics_store = EmptyDict
    /\ worker = [pc |-> "get"]
    /\ clients = [c \in ApproveClients |-> [pc |-> "idle", response |-> NoResponse]]
    /\ frames = EmptyDict
    /\ gate_log = EmptyDict
    /\ finalize_log = EmptyDict
    /\ step_log = NoStep
    /\ variant_runs = [v \in Variants |-> NotStarted]

NextApprovals ==
    \/ \E id \in TriageIds, alert \in ApprovalAlerts : TriageAlert(id, alert)
    \/ WorkerGet
    \/ GatherContext(Worker, GateGather)
    \/ AnalyzeLogs(Worker, ApprovalLogs)
    \/ AnalyzeMetrics(Worker, ApprovalMetrics)
    \/ IncidentRag(Worker, GateRag)
    \/ PlanRemediation(Worker, WorkerPlan)
    \/ ValidateAction(Worker, ApprovalSafety)
    \/ Finalize(Worker)
    \/ WorkerAutoResume
    \/ WorkerStore
    \/ \E c \in ApproveClients, id \in RequestIds : ApproveBegin(c, id)
    \/ \E c \in ApproveClients : Finalize(c)
    \/ \E c \in ApproveClients : ApproveEnd(c)
    \/ \E id \in RequestIds : RejectAction(id)

SpecApprovals == InitApprovals /\ [][NextApprovals]_vars

-----------------------------------------------------------------------------
(* Properties *)

NodesOf(events) == {events[i].node : i \in 1..Len(events)}
CountNode(events, node) ==
    Cardinality({i \in 1..Len(events) : events[i].node = node})

StagesThroughValidate ==
    {"gather_context", "analyze_logs", "analyze_metrics", "incident_rag",
     "plan_remediation", "validate_action"}

HasRiskKeyword(action) ==
    \E k \in 1..Len(HIGH_RISK_ACTIONS) : Contains(HIGH_RISK_ACTIONS[k], Lower(action))
CriticalServiceNames == {PaymentService, AuthService, DatabasePrimary, KafkaBroker}
SevereAlert(severity) == severity \in {"critical", "high"}

\* The model answered the approval question, and what it answered
ModelAnswered(g) == g.llm_invoked /\ g.llm_answer.type = "ai"
RepliesAskingApproval ==
    { SafetyReply(a, n) : a \in SafetyAssessments, n \in ApprovalYes }
RepliesNotAskingApproval ==
    { SafetyReply(a, n) : a \in SafetyAssessments, n \in ApprovalNo }

FinalizedBy(id, t) ==
    /\ id \in DOMAIN finalize_log
    /\ \E i \in 1..Len(finalize_log[id]) : finalize_log[id][i] = t

\* C1: a session the worker finalized inside run_triage_workflow, without an
\* approve call, went through a validate_action that saw no high-risk keyword
\* in the action, a service outside the critical list, a confidence of at
\* least 0.7, a severity that is neither critical nor high, and a model
\* answer that did not ask for approval.
C1_AutoFinalizeOnlyWhenGateOpen ==
    \A id \in DOMAIN finalize_log :
        FinalizedBy(id, Worker) =>
            /\ id \in DOMAIN gate_log
            /\ ~HasRiskKeyword(gate_log[id].inputs.action)
            /\ gate_log[id].inputs.service \notin CriticalServiceNames
            /\ gate_log[id].inputs.confidence >= 70
            /\ ~SevereAlert(gate_log[id].inputs.severity)
            /\ ModelAnswered(gate_log[id])
            /\ gate_log[id].llm_answer \in RepliesNotAskingApproval

C1_Witness ==
    \E id \in DOMAIN finalize_log :
        /\ finalize_log[id] = << Worker >>
        /\ id \in DOMAIN gate_log
        /\ gate_log[id].llm_answer \in RepliesNotAskingApproval

\* The step on which run_triage_workflow returns and the worker stores its
\* result (a stored "rejected" result is the worker's own error result)
RunReturns ==
    /\ worker.pc \in {"run", "auto_finalize"}
    /\ worker'.pc = "get"
    /\ worker.triage_id \in DOMAIN triage_results'
    /\ triage_results'[worker.triage_id].status # "rejected"

\* C2: a run whose validate_action left requires_approval true has executed
\* every stage through validate_action, leaves the session checkpointed under
\* its id in front of finalize, and returns without having executed finalize:
\* the returned trace has no finalize event.
C2_RunSuspendsBeforeFinalize ==
    [][ /\ (worker.pc = "run" /\ worker'.pc = "auto_finalize")
            => ~frames[Worker].values.requires_approval
        /\ (RunReturns /\ triage_results'[worker.triage_id].requires_approval)
            => /\ worker.pc = "run"
               /\ StagesThroughValidate \subseteq NodesOf(triage_results'[worker.triage_id].events)
               /\ "finalize" \notin NodesOf(triage_results'[worker.triage_id].events)
               /\ worker.triage_id \in DOMAIN checkpointer'
               /\ checkpointer'[worker.triage_id].next = "finalize"
               /\ checkpointer'[worker.triage_id].values = frames[Worker].values
               /\ checkpointer'[worker.triage_id].values.requires_approval
               /\ triage_results'[worker.triage_id].events = frames[Worker].values.events
               /\ finalize_log' = finalize_log
               /\ ~FinalizedBy(worker.triage_id, Worker)
      ]_vars

C2_Witness ==
    \E id \in DOMAIN triage_results :
        /\ triage_results[id].status = "pending"
        /\ triage_results[id].requires_approval
        /\ StagesThroughValidate \subseteq NodesOf(triage_results[id].events)
        /\ checkpointer[id].next = "finalize"
        /\ id \notin DOMAIN finalize_log

\* C3: a run whose validate_action left requires_approval false goes on
\* through finalize in the same call: when it returns, finalize has executed
\* exactly once, by the worker, and no approve call was involved.
C3_RunFinalizesWhenNoApprovalNeeded ==
    [][ /\ (worker.pc = "run" /\ worker'.pc = "get" /\ RunReturns)
            => triage_results'[worker.triage_id].requires_approval
        /\ (RunReturns /\ ~triage_results'[worker.triage_id].requires_approval)
            => /\ worker.pc = "auto_finalize"
               /\ CountNode(triage_results'[worker.triage_id].events, "finalize") = 1
               /\ finalize_log'[worker.triage_id] = << Worker >>
               /\ checkpointer'[worker.triage_id].next = "END"
               /\ triage_results'[worker.triage_id].status = "approved"
      ]_vars

C3_Witness ==
    \E id \in DOMAIN triage_results :
        /\ triage_results[id].status = "approved"
        /\ ~triage_results[id].requires_approval
        /\ CountNode(triage_results[id].events, "finalize") = 1
        /\ FinalizedBy(id, Worker)
        /\ \A c \in Clients : clients[c].response = NoResponse

\* The step on which an approve call that resumed a session returns
ResumeReturns(c) ==
    /\ clients[c].pc = "resuming"
    /\ clients'[c].pc = "idle"

\* C4: resuming a session suspended in front of finalize executes finalize
\* exactly once from the checkpointed state and returns a result with status
\* "approved" and completed_at set.
C4_ResumeCompletesSession ==
    [][ \A c \in Clients :
          (ResumeReturns(c) /\ frames[c].next = "END" /\ frames[c].steps = 1)
            => /\ clients'[c].response.code = "200"
               /\ clients'[c].response.status = "approved"
               /\ triage_results'[clients[c].triage_id].status = "approved"
               /\ CountNode(triage_results'[clients[c].triage_id].events, "finalize") = 1
               /\ triage_results'[clients[c].triage_id].completed_at # None
      ]_vars

\* C5: a resume of a session that has already completed raises a defined
\* error: the caller gets an error reply, finalize is not executed again and
\* nothing is stored.
C5_SecondResumeIsAnError ==
    [][ \A c \in Clients :
          (ResumeReturns(c) /\ frames[c].next = "END" /\ frames[c].steps = 0)
            => /\ clients'[c].response.code = "404"
               /\ UNCHANGED <<triage_results, checkpointer, finalize_log>>
      ]_vars

\* The step is an approve call of client c for the id
ApproveCalled(c, id) ==
    /\ clients[c].pc = "idle"
    /\ clients'[c] # clients[c]
    /\ IF clients'[c].pc = "resuming" THEN clients'[c].triage_id = id
       ELSE clients'[c].response.code # "none" /\ clients'[c].response.triage_id = id

\* C6: an approve call for an id that has no checkpoint ends in an error
\* reply to the caller: no stage executes, no session state is created and no
\* result is stored.
C6_ResumeOfUnknownIdIsAnError ==
    [][ \A c \in Clients, id \in RequestIds :
          (ApproveCalled(c, id) /\ id \notin DOMAIN checkpointer)
            => /\ clients'[c] = [pc |-> "idle", response |-> NotFound(id)]
               /\ c \notin DOMAIN frames'
               /\ UNCHANGED <<triage_results, checkpointer, frames, gate_log,
                              finalize_log, metrics_store, triage_queue, worker>>
      ]_vars

C6_Witness ==
    \E c \in Clients :
        /\ clients[c] = [pc |-> "idle", response |-> NotFound(UnknownId)]
        /\ UnknownId \notin DOMAIN checkpointer
        /\ UnknownId \notin DOMAIN triage_results

C8_RiskKeywordBlocksWithoutModel ==
    \A id \in DOMAIN gate_log :
        HasRiskKeyword(gate_log[id].inputs.action)
          => /\ ~gate_log[id].guardrail.allowed
             /\ gate_log[id].requires_approval
             /\ checkpointer[id].values.requires_approval
             /\ ~gate_log[id].llm_invoked
             /\ gate_log[id].llm_answer = NotAsked

C8_Witness ==
    \E id \in DOMAIN gate_log :
        /\ gate_log[id].inputs.action = TerminatePod
        /\ gate_log[id].inputs.service = ReportingService
        /\ gate_log[id].inputs.confidence = 95
        /\ ~gate_log[id].llm_invoked

\* What the three deterministic rules say of the inputs
RuleHit(inputs) ==
    \/ HasRiskKeyword(inputs.action)
    \/ inputs.service \in CriticalServiceNames
    \/ inputs.confidence < 70

\* C9: layer 1 returns allowed=false, requires_approval=true exactly when the
\* action contains a high-risk keyword, or the service is in the critical
\* list, or confidence is below 0.7 (0.7 itself passes); the model is not
\* consulted in those cases, and otherwise layer 1 returns allowed=true.
C9_DeterministicLayer ==
    \A id \in DOMAIN gate_log :
        /\ gate_log[id].guardrail.allowed = ~RuleHit(gate_log[id].inputs)
        /\ gate_log[id].guardrail.requires_approval = RuleHit(gate_log[id].inputs)
        /\ RuleHit(gate_log[id].inputs) => ~gate_log[id].llm_invoked

C9_Witness ==
    \E id \in DOMAIN gate_log :
        /\ gate_log[id].inputs.confidence = 70
        /\ gate_log[id].inputs.service = ReportingService
        /\ gate_log[id].guardrail.allowed
        /\ gate_log[id].llm_invoked

\* C10: when layer 1 passes and the model answers, the final requires_approval
\* is (the model says approval is required) or (severity is critical or high).
C10_FinalDecisionFollowsModelAnswer ==
    \A id \in DOMAIN gate_log :
        (gate_log[id].guardrail.allowed /\ ModelAnswered(gate_log[id]))
          => gate_log[id].requires_approval =
                (\/ gate_log[id].llm_answer \in RepliesAskingApproval
                 \/ SevereAlert(gate_log[id].inputs.severity))


\* A task's ainvoke executes one node on this step: the node is frames[t].next
StepOf(t) ==
    /\ t \in DOMAIN frames
    /\ t \in DOMAIN frames'
    /\ frames'[t].triage_id = frames[t].triage_id
    /\ frames'[t].steps = frames[t].steps + 1

\* The latest node execution was this node, for this session
LatestStep(node, id) == step_log.node = node /\ step_log.triage_id = id

\* The engine went on after the latest node execution: its update is merged
\* into the checkpoint of the session
EngineWentOn ==
    /\ step_log.triage_id \in DOMAIN checkpointer
    /\ LET events == checkpointer[step_log.triage_id].values.events
           added  == step_log.update.events
       IN /\ Len(events) >= Len(added)
          /\ SubSeq(events, Len(events) - Len(added) + 1, Len(events)) = added

\* An exception was raised in layer 1 or in layer 2 of this validate_action run
GateRaised(g) == g.guardrail = Raised \/ g.llm_answer = Raised \/ g.llm_answer = Malformed

\* C11: an exception in either guardrail layer is fail-safe: validate_action
\* returns requires_approval=true, its single event carries the action text
\* as captured (not redacted) and the failure reason, and the node does not
\* raise: the engine merges the update and stands in front of finalize.
C11_GateExceptionsFailSafe ==
    \A id \in DOMAIN gate_log :
        (LatestStep("validate_action", id) /\ GateRaised(gate_log[id]))
          => /\ step_log.update.requires_approval
             /\ Len(step_log.update.events) = 1
             /\ step_log.update.events[1].node = "validate_action"
             /\ step_log.update.events[1].extra.sanitized_action = gate_log[id].inputs.action
             /\ step_log.update.events[1].extra.llm_reasoning = "Validation failed"
             /\ EngineWentOn
             /\ checkpointer[id].next = "finalize"
             /\ checkpointer[id].values.requires_approval

C11_Witness ==
    \E id \in DOMAIN gate_log :
        /\ LatestStep("validate_action", id)
        /\ gate_log[id].guardrail # Raised
        /\ gate_log[id].guardrail.allowed
        /\ gate_log[id].llm_answer = Raised
        /\ gate_log[id].inputs.action = RestartHost
        /\ redact_pii(RestartHost) # RestartHost
        /\ step_log.update.events[1].extra.sanitized_action = RestartHost

ToolStages == {"gather_context", "analyze_logs", "analyze_metrics"}

\* The fixed pipeline order
PipelineSuccessor(node) ==
    CASE node = "gather_context"   -> "analyze_logs"
      [] node = "analyze_logs"     -> "analyze_metrics"
      [] node = "analyze_metrics"  -> "incident_rag"
      [] node = "incident_rag"     -> "plan_remediation"
      [] node = "plan_remediation" -> "validate_action"
      [] node = "validate_action"  -> "finalize"

MostRecentCarriesToolCalls(messages) ==
    /\ messages # <<>>
    /\ messages[Len(messages)].type = "ai"
    /\ messages[Len(messages)].tool_calls # <<>>

\* C12: after a tool-enabled stage (gather_context, analyze_logs,
\* analyze_metrics) has run, the engine routes to the tool node when the most
\* recent message carries tool-call requests, and to the next stage of the
\* pipeline otherwise.
C12_RoutingAfterToolStages ==
    [][ \A t \in Tasks :
          (StepOf(t) /\ frames[t].next \in ToolStages)
            => frames'[t].next =
                 IF MostRecentCarriesToolCalls(frames'[t].values.messages) THEN "tools"
                 ELSE PipelineSuccessor(frames[t].next)
      ]_vars

\* The latest node execution, by task t, was this stage and the message it
\* returned requests this tool
Requested(t, node, tool) ==
    /\ step_log.node = node
    /\ step_log.task = t
    /\ "messages" \in DOMAIN step_log.update
    /\ step_log.update.messages[1].type = "ai"
    /\ \E i \in 1..Len(step_log.update.messages[1].tool_calls) :
          step_log.update.messages[1].tool_calls[i] = tool

\* C13: a request for search_logs issued by analyze_logs goes to the tool
\* node and from there back to analyze_logs; a request for
\* get_service_metrics issued by analyze_metrics goes back to analyze_metrics.
C13_ToolLoopReturnsToRequester ==
    [][ \A t \in Tasks :
          /\ (StepOf(t) /\ frames[t].next = "analyze_logs"
                /\ Requested(t, "analyze_logs", "search_logs")')
                => frames'[t].next = "tools"
          /\ (StepOf(t) /\ frames[t].next = "tools"
                /\ Requested(t, "analyze_logs", "search_logs"))
                => frames'[t].next = "analyze_logs"
          /\ (StepOf(t) /\ frames[t].next = "tools"
                /\ Requested(t, "analyze_metrics", "get_service_metrics"))
                => frames'[t].next = "analyze_metrics"
      ]_vars

\* The message whose requests the tool node executes
OriginatingCall(state) == state.messages[Len(state.messages)].tool_calls[1]

\* C14: after the tool node, control goes to the stage named by the request
\* that was just executed: analyze_logs for search_logs, analyze_metrics for
\* get_service_metrics, and the default analyze_metrics for every other name,
\* whatever older messages hold.
C14_ToolRoutingByOriginatingCall ==
    [][ \A t \in Tasks :
          (StepOf(t) /\ frames[t].next = "tools")
            => frames'[t].next =
                 IF OriginatingCall(frames[t].values) = "search_logs"
                 THEN "analyze_logs" ELSE "analyze_metrics"
      ]_vars

\* The stage's own processing raised: its model call failed, or it read an
\* attribute of a reply that is not a message (incident_rag guards that read
\* with hasattr, so only a failed call raises there)
InternalError(step) ==
    /\ step.node \in {"gather_context", "analyze_logs", "analyze_metrics",
                      "incident_rag", "plan_remediation", "validate_action"}
    /\ \/ step.outcome = Raised
       \/ step.outcome = Malformed /\ step.node # "incident_rag"

\* The keys of the update a failing stage returns besides events, and whether
\* they hold the stage's fallback values
HoldsFallback(node, update, state) ==
    CASE node = "gather_context" -> DOMAIN update = {"events"}
      [] node = "analyze_logs" ->
            /\ DOMAIN update = {"logs_summary", "events"}
            /\ update.logs_summary = "Error analyzing logs"
      [] node = "analyze_metrics" ->
            /\ DOMAIN update = {"metrics_summary", "events"}
            /\ update.metrics_summary = "Error fetching metrics"
      [] node = "incident_rag" ->
            /\ DOMAIN update = {"similar_incidents", "events"}
            /\ Len(update.similar_incidents) = 2
      [] node = "plan_remediation" ->
            /\ DOMAIN update = {"hypothesis", "recommended_action", "confidence",
                                "messages", "events"}
            /\ update.hypothesis = "Degraded Service"
            /\ update.recommended_action = RestartPrefix \o state.alert.service
            /\ update.confidence = 50
      [] node = "validate_action" ->
            /\ DOMAIN update = {"requires_approval", "messages", "events"}
            /\ update.requires_approval

\* The event names the failure
CarriesErrorText(node, event) ==
    CASE node = "gather_context"   -> event.extra.error = "Context gathering failed"
      [] node = "analyze_logs"     -> event.extra.error = "Log analysis failed"
      [] node = "analyze_metrics"  -> event.extra.error = "Metrics analysis failed"
      [] node = "incident_rag"     -> event.extra.llm_reasoning = "LLM unavailable"
      [] node = "plan_remediation" -> event.extra.llm_reasoning = "Planning failed"
      [] node = "validate_action"  -> event.extra.llm_reasoning = "Validation failed"

IsPrefix(a, b) == Len(a) <= Len(b) /\ SubSeq(b, 1, Len(a)) = a

\* C16: the events of a session never get shorter, from one node execution
\* to the next and across suspension and resumption, and they are non-empty
\* in every state of a session in which gather_context has completed.
C16_EventsOnlyGrow ==
    [][ /\ \A id \in DOMAIN checkpointer' :
             /\ id \in DOMAIN checkpointer
                  => IsPrefix(checkpointer[id].values.events,
                              checkpointer'[id].values.events)
             /\ checkpointer'[id].next # "gather_context"
                  => checkpointer'[id].values.events # <<>>
        /\ \A t \in DOMAIN frames' :
             /\ frames'[t].triage_id \in DOMAIN checkpointer
                  => IsPrefix(checkpointer[frames'[t].triage_id].values.events,
                              frames'[t].values.events)
             /\ frames'[t].next # "gather_context"
                  => frames'[t].values.events # <<>>
      ]_vars

C16_Witness ==
    \E id \in DOMAIN checkpointer :
        LET events == checkpointer[id].values.events IN
        /\ events # <<>>
        /\ events[1].node = "gather_context"
        /\ "error" \in DOMAIN events[1].extra
        /\ events[Len(events)].node = "finalize"
        /\ \E c \in Clients : FinalizedBy(id, c)

Stages ==
    {"gather_context", "analyze_logs", "analyze_metrics", "incident_rag",
     "plan_remediation", "validate_action", "finalize"}

\* C17: every execution of one of the seven stages, on its success path, its
\* tool-request path and its error path, appends at least one event.
C17_EveryStageAppendsAnEvent ==
    [][ \A t \in Tasks :
          (StepOf(t) /\ frames[t].next \in Stages)
            => /\ step_log'.node = frames[t].next
               /\ "events" \in DOMAIN step_log'.update
               /\ Len(step_log'.update.events) >= 1
               /\ \A i \in 1..Len(step_log'.update.events) :
                     step_log'.update.events[i].node = frames[t].next
               /\ Len(frames'[t].values.events) >= Len(frames[t].values.events) + 1
               /\ Len(checkpointer'[frames[t].triage_id].values.events)
                    >= Len(checkpointer[frames[t].triage_id].values.events) + 1
      ]_vars

C17_Witness ==
    /\ step_log.node = "analyze_metrics"
    /\ step_log.outcome.type = "ai"
    /\ step_log.outcome.tool_calls # <<>>
    /\ Len(step_log.update.events) = 1
    /\ \E i \in 1..Len(checkpointer[step_log.triage_id].values.events) :
          "error" \in DOMAIN checkpointer[step_log.triage_id].values.events[i].extra

Accumulating == {"messages", "events"}

\* C18: a partial update is merged key by key: messages and events are
\* appended to what is stored, in order; any other key the update holds
\* replaces the stored value; keys the update does not hold keep their value.
C18_MergeRule ==
    [][ \A t \in Tasks :
          StepOf(t)
            => LET old    == frames[t].values
                   new    == frames'[t].values
                   update == step_log'.update
               IN /\ DOMAIN update \subseteq DOMAIN old
                  /\ DOMAIN new = DOMAIN old
                  /\ \A k \in DOMAIN old :
                       new[k] = IF k \notin DOMAIN update THEN old[k]
                                ELSE IF k \in Accumulating THEN old[k] \o update[k]
                                ELSE update[k]
                  /\ checkpointer'[frames[t].triage_id].values = new
      ]_vars

C18_Witness ==
    /\ step_log.node = "plan_remediation"
    /\ step_log.triage_id \in DOMAIN checkpointer
    /\ LET values == checkpointer[step_log.triage_id].values IN
       /\ Len(values.messages) >= 3
       /\ values.messages[Len(values.messages)] = step_log.update.messages[1]
       /\ values.hypothesis = step_log.update.hypothesis
       /\ values.hypothesis # ""
       /\ values.logs_summary # ""

HasRun(node, events) == \E i \in 1..Len(events) : events[i].node = node

\* C19: requires_approval is true from the creation of a session until
\* validate_action has executed, and validate_action is the only node whose
\* partial update holds requires_approval.
C19_ApprovalFlagOwnedByValidateAction ==
    /\ \A id \in DOMAIN checkpointer :
          ~HasRun("validate_action", checkpointer[id].values.events)
            => checkpointer[id].values.requires_approval
    /\ \A t \in DOMAIN frames :
          ~HasRun("validate_action", frames[t].values.events)
            => frames[t].values.requires_approval
    /\ (step_log.node # None /\ "requires_approval" \in DOMAIN step_log.update)
          => step_log.node = "validate_action"

C19_Witness ==
    /\ step_log.node = "finalize"
    /\ step_log.task = Worker
    /\ ~checkpointer[step_log.triage_id].values.requires_approval
    /\ HasRun("validate_action", checkpointer[step_log.triage_id].values.events)

\* C20: in every state of a session the confidence lies between 0 and 1
\* (0..100 hundredths), whatever confidence text the model returned and on
\* the failure path of plan_remediation.
C20_ConfidenceWithinUnitInterval ==
    /\ \A id \in DOMAIN checkpointer :
          checkpointer[id].values.confidence \in 0..100
    /\ \A t \in DOMAIN frames :
          frames[t].values.confidence \in 0..100


\* The session state a result was built from, field by field
BuiltFrom(result, state) ==
    /\ result.events = state.events
    /\ result.confidence = state.confidence
    /\ result.requires_approval = state.requires_approval
    /\ state.hypothesis # "" => result.hypothesis = state.hypothesis
    /\ state.recommended_action # <<>> => result.recommended_action = state.recommended_action
    /\ state.logs_summary # "" => result.logs_summary = state.logs_summary
    /\ state.metrics_summary # "" => result.metrics_summary = state.metrics_summary

\* The stored result is the one run_triage_workflow returned at suspension
HeldAtSuspension(result) == result.status = "pending"

SessionOf(id, chk, gate, fin) ==
    [checkpoint |-> IF id \in DOMAIN chk THEN chk[id] ELSE None,
     gate       |-> IF id \in DOMAIN gate THEN gate[id] ELSE None,
     finalized  |-> IF id \in DOMAIN fin THEN fin[id] ELSE None]

\* C22: sessions with different triage_ids that run concurrently share no
\* mutable state.  Each running ainvoke works on the state stored under its
\* own id, no two of them work on the same id, a node execution by one
\* variant leaves the frame, the checkpoint, the gate record and the result
\* of every other session as they were, and each result is built from the
\* state of its own session.
C22_SessionsAreIsolated ==
    [][ /\ \A v \in DOMAIN frames' :
             /\ frames'[v].values.triage_id = frames'[v].triage_id
             /\ \A w \in DOMAIN frames' :
                   w # v => frames'[w].triage_id # frames'[v].triage_id
        /\ \A id \in DOMAIN checkpointer' : checkpointer'[id].values.triage_id = id
        /\ \A v \in Variants :
             StepOf(v)
               => /\ \A id \in ExperimentIds \ {frames[v].triage_id} :
                        SessionOf(id, checkpointer', gate_log', finalize_log')
                          = SessionOf(id, checkpointer, gate_log, finalize_log)
                  /\ \A w \in Variants \ {v} :
                        /\ variant_runs'[w] = variant_runs[w]
                        /\ w \in DOMAIN frames
                             => w \in DOMAIN frames' /\ frames'[w] = frames[w]
        /\ \A v \in Variants :
             (variant_runs'[v].pc = "done" /\ variant_runs'[v].success)
               => /\ variant_runs'[v].result.triage_id = variant_runs'[v].triage_id
                  /\ BuiltFrom(variant_runs'[v].result,
                               checkpointer'[variant_runs'[v].triage_id].values)
      ]_vars

C22_Witness ==
    /\ \A v \in Variants : variant_runs[v].pc = "done" /\ variant_runs[v].success
    /\ variant_runs["control"].triage_id # variant_runs["nemotron"].triage_id
    /\ variant_runs["control"].result.status = "approved"
    /\ variant_runs["nemotron"].result.status = "pending"
    /\ variant_runs["control"].result.recommended_action = ScaleReplicas
    /\ variant_runs["nemotron"].result.recommended_action = TerminatePod
    /\ step_log.node = "finalize"
    /\ step_log.task = "control"
    /\ Len(checkpointer[variant_runs["nemotron"].triage_id].values.messages)
         # Len(checkpointer[variant_runs["control"].triage_id].values.messages)


\* The entry run_triage_workflow's result leaves in triage_results
IsWorkflowResult(result) ==
    /\ result.status \in {"pending", "approved"}
    /\ result.events # <<>>
    /\ \A i \in 1..Len(result.events) : result.events[i].node # "error"

\* The entry the worker stores when the workflow raised
IsFailureResult(result) ==
    /\ result.status = "rejected"
    /\ Len(result.events) = 1
    /\ result.events[1].node = "error"

\* C23: every alert the worker dequeues eventually has a terminal entry in
\* triage_results, either the workflow's result or, when the workflow raised
\* (the engine aborted a tool loop that ran out of steps), a rejected result
\* with one error event; and the worker is then back at the queue.
C23_EveryDequeuedAlertGetsAResult ==
    \A id \in WorkerIds :
        (worker.pc # "get" /\ worker.triage_id = id)
          ~> /\ worker.pc = "get"
             /\ id \in DOMAIN triage_results
             /\ triage_results[id].triage_id = id
             /\ \/ IsWorkflowResult(triage_results[id])
                \/ IsFailureResult(triage_results[id])

C23_Witness ==
    /\ worker.pc # "get"
    /\ \E id \in DOMAIN triage_results :
          /\ id # worker.triage_id
          /\ IsFailureResult(triage_results[id])
          /\ ToolRounds(checkpointer[id].values) >= 1
          /\ checkpointer[id].next \notin {"finalize", "END"}


\* The tool node answered the requests of task t's latest stage, and at least
\* one answer is an error payload
ToolErrorAnswered(t) ==
    /\ StepOf(t)
    /\ frames[t].next = "tools"
    /\ step_log.task = t
    /\ step_log.node \in ToolStages
    /\ \E i \in 1..Len(step_log'.update.messages) :
          step_log'.update.messages[i].status = "error"

\* C24: when a requested tool call fails, or names a tool the stage binds but
\* the tool node does not register, a tool result carrying an error payload is
\* appended to messages, one per request and in request order, and control
\* returns to the stage that issued the request; the session goes on.
C24_ToolErrorsReturnToRequester ==
    [][ \A t \in Tasks :
          ToolErrorAnswered(t)
            => LET calls   == step_log.update.messages[1].tool_calls
                   answers == step_log'.update.messages
                   before  == frames[t].values.messages
                   after   == frames'[t].values.messages
               IN /\ Len(answers) = Len(calls)
                  /\ \A i \in 1..Len(calls) :
                        /\ answers[i].type = "tool"
                        /\ answers[i].name = calls[i]
                  /\ after = before \o answers
                  /\ frames'[t].next = step_log.node
      ]_vars


\* The worker hands over the result run_triage_workflow returned for a session
RunReturnsResult(id) ==
    /\ worker.pc # "get"
    /\ worker.triage_id = id
    /\ worker'.pc = "get"
    /\ id \in DOMAIN triage_results'
    /\ ~IsFailureResult(triage_results'[id])

\* The run stopped at the interrupt in front of finalize
SuspendedBeforeFinalize(id) ==
    /\ checkpointer[id].next = "finalize"
    /\ ~FinalizedBy(id, Worker)

\* finalize ran inside the call
FinalizedInCall(id) ==
    /\ checkpointer[id].next = "END"
    /\ FinalizedBy(id, Worker)

\* C25 as stated: the result run returns has status "pending_approval"
\* exactly when the run suspended before finalize and "auto_approved" exactly
\* when finalize ran in the same call; its requires_approval and events are
\* those of the session state.
C25_RunResultStatusAsStated ==
    [][ \A id \in TriageIds :
          RunReturnsResult(id)
            => /\ triage_results'[id].status = "pending_approval"
                    <=> SuspendedBeforeFinalize(id)
               /\ triage_results'[id].status = "auto_approved"
                    <=> FinalizedInCall(id)
               /\ triage_results'[id].requires_approval
                    = checkpointer[id].values.requires_approval
               /\ triage_results'[id].events = checkpointer[id].values.events
      ]_vars

\* C25, with the status values run_triage_workflow uses: the result has
\* status "pending" exactly when the run suspended before finalize and
\* "approved" exactly when finalize ran in the same call; its
\* requires_approval and events are those of the session state.
C25_RunResultStatus ==
    [][ \A id \in TriageIds :
          RunReturnsResult(id)
            => /\ triage_results'[id].status \in {"pending", "approved"}
               /\ triage_results'[id].status = "pending"
                    <=> SuspendedBeforeFinalize(id)
               /\ triage_results'[id].status = "approved"
                    <=> FinalizedInCall(id)
               /\ triage_results'[id].requires_approval
                    = checkpointer[id].values.requires_approval
               /\ triage_results'[id].events = checkpointer[id].values.events
      ]_vars

C25_Witness ==
    \E id \in DOMAIN triage_results :
        /\ worker.pc = "get"
        /\ triage_results[id].status = "approved"
        /\ ~triage_results[id].requires_approval
        /\ FinalizedInCall(id)
        /\ LET events == triage_results[id].events IN
           /\ events[Len(events)].node = "finalize"
           /\ events[Len(events)].extra.status = "auto_approved"


\* finalize has executed for the session with requires_approval false, and
\* the result built from that state has been handed out
AutoFinalized(id) ==
    /\ id \in DOMAIN checkpointer
    /\ checkpointer[id].next = "END"
    /\ ~checkpointer[id].values.requires_approval
    /\ id \in DOMAIN triage_results
    /\ triage_results[id].events = checkpointer[id].values.events

ExceptCompletedAt(result) == [result EXCEPT !.completed_at = None]

\* No stage executes for the session and its checkpointed state stays as it is
SessionUntouched(id) ==
    /\ checkpointer'[id] = checkpointer[id]
    /\ step_log' # step_log => step_log'.triage_id # id

\* C26: once finalize has executed for a session with requires_approval
\* false, the run is immutable: no later operation (another approve, a reject,
\* another worker step) executes a stage for it or changes any of its fields
\* other than completed_at.
C26_FinalizedRunIsImmutable ==
    [][ \A id \in TriageIds :
          AutoFinalized(id)
            => /\ SessionUntouched(id)
               /\ ExceptCompletedAt(triage_results'[id])
                    = ExceptCompletedAt(triage_results[id])
      ]_vars


PipelineOrder ==
    <<"gather_context", "analyze_logs", "analyze_metrics", "incident_rag",
      "plan_remediation", "validate_action", "finalize">>

\* The stages in front of `node` in the pipeline
StagesBefore(node) ==
    {PipelineOrder[j] : j \in {j \in 1..Len(PipelineOrder) :
        \E i \in 1..Len(PipelineOrder) : PipelineOrder[i] = node /\ j < i}}

\* The runs (ainvoke calls) in flight for a session
RunsOf(id) == {t \in DOMAIN frames : frames[t].triage_id = id}

PlanningReplyIn(history) ==
    IF history # <<>> /\ history[Len(history)].type = "ai"
    THEN {history[Len(history)]} ELSE {}

\* The action texts a model-call input carries: the action line of the prompt
\* and the recommended-action section of the planning reply in the history
ActionTextsIn(input) ==
    {input.prompt.content.action}
      \cup {m.content.action : m \in PlanningReplyIn(input.history)}

\* Task t executes validate_action and the Model Gateway is called
SafetyModelCalled(t) ==
    /\ StepOf(t)
    /\ frames[t].next = "validate_action"
    /\ gate_log'[frames[t].triage_id].llm_invoked

\* C28: in the model-assisted guardrail layer the Model Gateway is given the
\* proposed action text only in sanitized form: no unredacted copy of the
\* action text is part of the input of that model call.
C28_ModelSeesOnlySanitizedAction ==
    [][ \A t \in Tasks :
          SafetyModelCalled(t)
            => LET action == frames[t].values.recommended_action IN
               \A text \in ActionTextsIn(ModelCallInput(frames[t].values)) :
                  text = action => action = redact_pii(action)
      ]_vars


\* The fields of a TriageResult
ResultFields ==
    {"triage_id", "alert_id", "service", "severity", "status", "logs_summary",
     "metrics_summary", "hypothesis", "recommended_action", "confidence",
     "requires_approval", "events", "completed_at"}

\* An entry of triage_results that is a whole result of the session `id`
CompleteResult(id, result) ==
    /\ DOMAIN result = ResultFields
    /\ result.triage_id = id
    /\ IsWorkflowResult(result) \/ IsFailureResult(result)
    /\ IsWorkflowResult(result)
         => /\ id \in DOMAIN checkpointer
            /\ checkpointer[id].next \in {"finalize", "END"}
            /\ result.events = checkpointer[id].values.events

WorkerCancelled == worker.pc = "cancelled"

\* The worker's run is given up in the middle of the pipeline: its ainvoke
\* neither returned nor ran out of steps
RunAbandoned ==
    /\ Worker \in DOMAIN frames
    /\ ~Returns(frames[Worker])
    /\ ~OutOfSteps(frames[Worker])
    /\ Worker \notin DOMAIN frames'

\* C29: cancelling the worker task while a session is in flight never exposes
\* a partially built session: triage_results holds for that triage_id either
\* no entry or a complete result, the update of the stage in progress is
\* applied entirely or not at all (the stored session is the state after the
\* last whole stage), and the worker loop exits.
C29_CancellationLeavesNoPartialSession ==
    [][ /\ (~WorkerCancelled /\ WorkerCancelled')
          => /\ triage_results' = triage_results
             /\ checkpointer' = checkpointer
             /\ Worker \notin DOMAIN frames'
        /\ RunAbandoned
          => /\ WorkerCancelled'
             /\ triage_results' = triage_results
             /\ checkpointer' = checkpointer
             /\ worker.triage_id \notin DOMAIN triage_results
             /\ checkpointer[worker.triage_id].values = frames[Worker].values
             /\ checkpointer[worker.triage_id].next = frames[Worker].next
        /\ ~WorkerCancelled'
          => \A t \in {Worker} \cap DOMAIN frames :
                t \in DOMAIN frames' /\ frames'[t].triage_id = frames[t].triage_id
                  => \/ frames'[t].values = frames[t].values
                     \/ StepOf(t) /\ frames'[t].values
                                       = ApplyUpdate(frames[t].values, step_log'.update)
        /\ WorkerCancelled
          => /\ worker' = worker
             /\ UNCHANGED <<frames, checkpointer, triage_results>>
        /\ \A id \in DOMAIN triage_results' :
             CompleteResult(id, triage_results[id])'
      ]_vars

C29_Witness ==
    /\ WorkerCancelled
    /\ \E id \in DOMAIN checkpointer :
         /\ id \notin DOMAIN triage_results
         /\ checkpointer[id].next \in {"tools", "validate_action"}
         /\ checkpointer[id].values.events # <<>>
    /\ \E id \in DOMAIN triage_results : IsWorkflowResult(triage_results[id])


\* analyze_logs has answered without tool calls and analyze_metrics has
\* executed after that answer
LogsHandedOver(state) ==
    \E i, j \in 1..Len(state.events) :
        /\ i < j
        /\ state.events[i].node = "analyze_logs"
        /\ state.events[i].summary = "Completed log analysis"
        /\ state.events[j].node = "analyze_metrics"

\* C30: the tool loop stays within one stage family: once analyze_logs has
\* answered without tool calls and control has passed to analyze_metrics,
\* analyze_logs is never executed again in that session; every tool round
\* started by analyze_metrics returns to analyze_metrics.
C30_ToolLoopStaysInStageFamily ==
    [][ \A t \in Tasks :
          /\ (StepOf(t) /\ frames[t].next = "analyze_logs")
                => ~LogsHandedOver(frames[t].values)
          /\ (StepOf(t) /\ frames[t].next = "tools"
                /\ LatestStep("analyze_metrics", frames[t].triage_id))
                => frames'[t].next = "analyze_metrics"
      ]_vars


\* Task t executes a stage that degrades on an internal error
DegradedStep(t) ==
    /\ StepOf(t)
    /\ step_log'.task = t
    /\ step_log'.node = frames[t].next
    /\ InternalError(step_log')

\* C31: when a stage degrades on an internal error, the engine's next step is
\* the next stage in pipeline order: it never goes to the tool-execution node
\* and never re-enters the failed stage as a consequence of that error,
\* whatever the message history holds.
C31_DegradedStageAdvances ==
    [][ \A t \in Tasks :
          DegradedStep(t)
            => /\ frames'[t].next # "tools"
               /\ frames'[t].next # frames[t].next
               /\ frames'[t].next = PipelineSuccessor(frames[t].next)
      ]_vars


\* run_triage_workflow has returned for the session with validate_action
\* executed, suspended before finalize or finalized
RunReturned(id) ==
    /\ id \in DOMAIN triage_results
    /\ IsWorkflowResult(triage_results[id])
    /\ "validate_action" \in NodesOf(triage_results[id].events)
    /\ checkpointer[id].next \in {"finalize", "END"}

\* C32: if the model eventually answers every stage without tool-call
\* requests and every model and tool call returns, each run_triage_workflow
\* call eventually returns with validate_action having executed, either
\* suspended before finalize or finalized.
C32_EveryRunReachesValidation ==
    \A id \in WorkerIds :
        (worker.pc = "run" /\ worker.triage_id = id) ~> RunReturned(id)


\* The keywords of the list that occur in the lower-cased action
MatchingKeywords(action) ==
    {k \in 1..Len(HIGH_RISK_ACTIONS) : Contains(HIGH_RISK_ACTIONS[k], Lower(action))}

\* C33: the deterministic layer checks its rules in the order keyword,
\* critical service, confidence and reports the first rule that fires: an
\* action containing a high-risk keyword yields a reason naming that keyword
\* even when the service is non-critical and confidence is high ("terminate
\* pod-7", "checkout", 0.95 gives allowed=false with a reason naming
\* "terminate"), and when several keywords match, the one earliest in the
\* keyword list is named.
C33_FirstFiringRuleIsReported ==
    LET call   == gate_log[GuardrailCallId]
        inputs == call.inputs
        result == call.guardrail
        hits   == MatchingKeywords(inputs.action)
    IN call.returned
         => /\ hits # {}
                 => /\ ~result.allowed
                    /\ result.reason.rule = "high_risk"
                    /\ \E k \in hits :
                          /\ \A j \in hits : k <= j
                          /\ result.reason.keyword = HIGH_RISK_ACTIONS[k]
            /\ (hits = {} /\ IsCriticalService(inputs.service))
                 => /\ ~result.allowed
                    /\ result.reason.rule = "critical_service"
                    /\ result.reason.service = inputs.service
            /\ (hits = {} /\ ~IsCriticalService(inputs.service)
                  /\ inputs.confidence < ConfidenceThreshold)
                 => /\ ~result.allowed
                    /\ result.reason.rule = "low_confidence"
            /\ (hits = {} /\ ~IsCriticalService(inputs.service)
                  /\ inputs.confidence >= ConfidenceThreshold)
                 => result.allowed
            /\ (inputs.action = TerminatePodLower /\ inputs.service = CheckoutService
                  /\ inputs.confidence = 95)
                 => /\ ~result.allowed
                    /\ result.reason.keyword = HIGH_RISK_ACTIONS[2]

C33_Witness ==
    LET call == gate_log[GuardrailCallId] IN
    /\ call.returned
    /\ call.inputs.action = ShutdownThenDelete
    /\ call.inputs.service = PaymentService
    /\ call.inputs.confidence = 50
    /\ Cardinality(MatchingKeywords(call.inputs.action)) = 2
    /\ call.guardrail.reason.rule = "high_risk"
    /\ call.guardrail.reason.keyword = HIGH_RISK_ACTIONS[1]


\* The session is waiting in the queue
Queued(id) == \E i \in 1..Len(triage_queue) : triage_queue[i].triage_id = id

\* The worker is inside run_triage_workflow for the session
WorkerRunning(id) == Worker \in DOMAIN frames /\ frames[Worker].triage_id = id

\* C34: approve_triage resumes a workflow only for a triage_id already present
\* in triage_results, and the worker stores a result only after
\* run_triage_workflow has returned; so under every interleaving of the worker
\* and approve calls, no approve call holds a resumed run, and finalize is
\* never executed through approval, for a session that is still queued or
\* still executing its stages.
C34_ApprovalOnlyAfterRunReturned ==
    [][ \A c \in Clients :
          /\ \A id \in TriageIds :
               (c \in DOMAIN frames' /\ frames'[c].triage_id = id)
                 => /\ id \in DOMAIN triage_results'
                    /\ ~Queued(id)'
                    /\ ~WorkerRunning(id)'
          /\ (StepOf(c) /\ frames[c].next = "finalize")
               => /\ frames[c].triage_id \in DOMAIN triage_results
                  /\ ~Queued(frames[c].triage_id)
                  /\ ~WorkerRunning(frames[c].triage_id)
          /\ \A id \in TriageIds :
               (id \notin DOMAIN triage_results /\ id \in DOMAIN triage_results')
                 => /\ WorkerRunning(id)
                    /\ Returns(frames[Worker]) \/ OutOfSteps(frames[Worker])
      ]_vars

C34_Witness ==
    \E c \in Clients :
        /\ step_log.task = c
        /\ step_log.node = "finalize"
        /\ step_log.triage_id \in DOMAIN triage_results
        /\ triage_results[step_log.triage_id].status = "pending"
        /\ c \in DOMAIN frames
        /\ frames[c].next = "END"


\* How many times an approve call has executed finalize for the session
FinalizedThroughApproval(id) ==
    IF id \in DOMAIN finalize_log
    THEN Cardinality({i \in 1..Len(finalize_log[id]) :
                         finalize_log[id][i] \in ApproveClients})
    ELSE 0

FinalizeEvents(events) ==
    Cardinality({i \in 1..Len(events) : events[i].node = "finalize"})

\* C35: two approve calls for the same suspended session, issued concurrently
\* or one after the other, execute finalize at most once in total: the trace
\* of that session never holds two finalize events.
C35_ApprovalFinalizesOnce ==
    \A id \in TriageIds :
        /\ FinalizedThroughApproval(id) <= 1
        /\ id \in DOMAIN checkpointer
             => FinalizeEvents(checkpointer[id].values.events) <= 1
        /\ id \in DOMAIN triage_results
             => FinalizeEvents(triage_results[id].events) <= 1


Rejected(id) == id \in DOMAIN triage_results /\ triage_results[id].status = "rejected"

\* How many times finalize has executed for the session
FinalizeRuns(id) == IF id \in DOMAIN finalize_log THEN Len(finalize_log[id]) ELSE 0

\* C36: once a triage has status "rejected" (set by reject_action, or stored
\* by the worker after a workflow failure), no later operation, including
\* approve_triage, changes its status to "approved" or executes finalize for
\* it.
C36_RejectedStaysRejected ==
    [][ \A id \in TriageIds :
          Rejected(id)
            => /\ triage_results'[id].status # "approved"
               /\ FinalizeRuns(id)' = FinalizeRuns(id)
      ]_vars


\* plan_remediation took its except branch in the session
PlanFailed(id) ==
    /\ id \in DOMAIN checkpointer
    /\ \E i \in 1..Len(checkpointer[id].values.events) :
          /\ checkpointer[id].values.events[i].node = "plan_remediation"
          /\ checkpointer[id].values.events[i].extra.llm_reasoning = "Planning failed"

\* C37: if plan_remediation fails, its fallback (confidence 0.5, action
\* "Restart <service>") is blocked by the deterministic guardrail layer, so
\* the session always ends run suspended with requires_approval true and is
\* never auto-finalized.
C37_FailedPlanIsHeldForApproval ==
    \A id \in TriageIds :
        PlanFailed(id)
          => LET state == checkpointer[id].values IN
             /\ state.confidence = 50
             /\ state.recommended_action = RestartPrefix \o state.alert.service
             /\ ~Layer1(state).allowed
             /\ id \in DOMAIN gate_log
                  => /\ ~gate_log[id].llm_invoked
                     /\ gate_log[id].requires_approval
                     /\ state.requires_approval
             /\ worker.pc # "auto_finalize"
             /\ ~FinalizedBy(id, Worker)
             /\ (id \in DOMAIN triage_results
                   /\ IsWorkflowResult(triage_results[id])
                   /\ triage_results[id].status = "pending")
                  => /\ triage_results[id].requires_approval
                     /\ "validate_action" \in NodesOf(triage_results[id].events)

C37_Witness ==
    \E id \in TriageIds :
        /\ PlanFailed(id)
        /\ id \in DOMAIN gate_log
        /\ "allowed" \in DOMAIN gate_log[id].guardrail
        /\ gate_log[id].guardrail.reason.rule = "low_confidence"
        /\ id \in DOMAIN triage_results
        /\ triage_results[id].status = "pending"
        /\ triage_results[id].requires_approval
        /\ checkpointer[id].next = "finalize"


\* The metrics entries recorded under an id
NodeMetricsOf(store, id) == IF id \in DOMAIN store THEN store[id].node_metrics ELSE <<>>

\* The tool calls the stage execution recorded in `step` asked for
RequestedCalls(step) ==
    IF "messages" \in DOMAIN step.update /\ step.update.messages[1].type = "ai"
    THEN Len(step.update.messages[1].tool_calls) ELSE 0

\* Task t executes a stage
StageStep(t) ==
    /\ StepOf(t)
    /\ frames[t].next \in Stages
    /\ step_log'.task = t
    /\ step_log'.node = frames[t].next

\* Exactly one entry is added under the session's id and none under another
OneEntryAdded(id) ==
    /\ id \in DOMAIN metrics_store'
    /\ Len(NodeMetricsOf(metrics_store', id)) = Len(NodeMetricsOf(metrics_store, id)) + 1
    /\ SubSeq(NodeMetricsOf(metrics_store', id), 1, Len(NodeMetricsOf(metrics_store, id)))
         = NodeMetricsOf(metrics_store, id)
    /\ \A other \in DOMAIN metrics_store' \ {id} :
          NodeMetricsOf(metrics_store', other) = NodeMetricsOf(metrics_store, other)

\* C38: each execution of a stage records exactly one metrics entry under
\* that session's triage_id (and under no other id), with the stage name and
\* tool-call count of that execution, success=false and the error text when
\* the stage's work failed, and success=true otherwise.
C38_OneMetricsEntryPerStageExecution ==
    [][ \A t \in Tasks :
          StageStep(t)
            => /\ OneEntryAdded(frames[t].triage_id)
               /\ LET entries == NodeMetricsOf(metrics_store', frames[t].triage_id)
                      entry   == entries[Len(entries)]
                  IN /\ entry.node_name = frames[t].next
                     /\ entry.tool_calls = RequestedCalls(step_log')
                     /\ entry.success = ~InternalError(step_log')
                     /\ InternalError(step_log') <=> entry.error # None
      ]_vars

=============================================================================
